---- MODULE Spec2Model ----
(***************************************************************************)
(* The daily-journal pipeline of journaling_companion: the entries table   *)
(* of database.py (one row per calendar date), the analyzer and the reply  *)
(* generator of app.py, the chat turn that composes them, and the login    *)
(* sessions that move the store between the local file and Google Drive.   *)
(*                                                                         *)
(* Texts are sequences of words.  The conversation and themes columns hold *)
(* JSON text, modelled as a sequence of JSON tokens that json_dumps_*      *)
(* writes and json_loads_* parses back.  Dates are day numbers (ISO date   *)
(* strings compare as the day numbers do).  Scores are hundredths.         *)
(***************************************************************************)
EXTENDS Integers, Sequences, FiniteSets, TLC

\* ---- bounds of the model ------------------------------------------------
MaxDay == 2       \* days the session runs over
MaxOps == 4       \* steps in one behaviour
MaxReads == 2     \* reads made one after another on a stored journal

WeekDays == 7     \* date('now', '-7 days')

\* the calendar dates: the session's days and the week after them
Days == 1..(MaxDay + WeekDays)

\* ---- SQL NULL and nullable column values --------------------------------
NULL == <<>>
Some(v) == <<v>>

\* ---- JSON text ----------------------------------------------------------
DQ == "\""
JsonSep == ", "
KeyUser == "\"user\": "
KeyLuna == "\"luna\": "
KeyTimestamp == "\"timestamp\": "

\* json.dumps of a str
json_dumps_str(t) == <<DQ>> \o t \o <<DQ>>

\* json.dumps of one message_data dict
json_dumps_message(m) ==
    <<"{", KeyUser>> \o json_dumps_str(m.user) \o
    <<JsonSep, KeyLuna>> \o json_dumps_str(m.luna) \o
    <<JsonSep, KeyTimestamp>> \o json_dumps_str(m.timestamp) \o <<"}">>

RECURSIVE JoinMessages(_)
JoinMessages(conv) ==
    IF Len(conv) = 0 THEN <<>>
    ELSE IF Len(conv) = 1 THEN json_dumps_message(conv[1])
    ELSE json_dumps_message(conv[1]) \o <<JsonSep>> \o JoinMessages(Tail(conv))

\* json.dumps(conversation): json.dumps([]) is the text '[]'
json_dumps_conversation(conv) == <<"[">> \o JoinMessages(conv) \o <<"]">>

RECURSIVE JoinLabels(_)
JoinLabels(labels) ==
    IF Len(labels) = 0 THEN <<>>
    ELSE IF Len(labels) = 1 THEN json_dumps_str(<<labels[1]>>)
    ELSE json_dumps_str(<<labels[1]>>) \o <<JsonSep>> \o JoinLabels(Tail(labels))

\* json.dumps(themes), themes a list of label strings
json_dumps_themes(labels) == <<"[">> \o JoinLabels(labels) \o <<"]">>

\* the JSON string that starts at token i: its value and the index after it
ScanString(text, i) ==
    LET j == CHOOSE k \in (i + 1)..Len(text) :
                 /\ text[k] = DQ
                 /\ \A n \in (i + 1)..(k - 1) : text[n] # DQ
    IN  [value |-> SubSeq(text, i + 1, j - 1), end |-> j + 1]

\* the JSON object that starts at token i
ScanMessage(text, i) ==
    LET u == ScanString(text, i + 2)
        l == ScanString(text, u.end + 2)
        t == ScanString(text, l.end + 2)
    IN  [value |-> [user |-> u.value, luna |-> l.value, timestamp |-> t.value],
         end |-> t.end + 1]

RECURSIVE ScanMessages(_, _)
ScanMessages(text, i) ==
    IF text[i] = "]" THEN <<>>
    ELSE IF text[i] = JsonSep THEN ScanMessages(text, i + 1)
    ELSE LET m == ScanMessage(text, i)
         IN  <<m.value>> \o ScanMessages(text, m.end)

\* json.loads(row conversation)
json_loads_conversation(text) == ScanMessages(text, 2)

RECURSIVE ScanLabels(_, _)
ScanLabels(text, i) ==
    IF text[i] = "]" THEN <<>>
    ELSE IF text[i] = JsonSep THEN ScanLabels(text, i + 1)
    ELSE LET s == ScanString(text, i)
         IN  <<s.value[1]>> \o ScanLabels(text, s.end)

\* json.loads(row themes) if row themes else []
json_loads_themes(col) == IF col = NULL THEN <<>> ELSE ScanLabels(col[1], 2)

\* ---- texts ---------------------------------------------------------------
WS == " "

RECURSIVE lstrip(_)
lstrip(t) == IF Len(t) > 0 /\ t[1] = WS THEN lstrip(Tail(t)) ELSE t

RECURSIVE rstrip(_)
rstrip(t) ==
    IF Len(t) > 0 /\ t[Len(t)] = WS THEN rstrip(SubSeq(t, 1, Len(t) - 1)) ELSE t

\* str.strip()
strip(t) == rstrip(lstrip(t))

\* e occurs in t as a contiguous run of words
Contains(t, e) ==
    \E i \in 1..(Len(t) - Len(e) + 1) : SubSeq(t, i, i + Len(e) - 1) = e

\* ---- analyzer (app.py analyze_entry) --------------------------------------
THEMES ==
    << "Work & Career", "Relationships & Social", "Health & Wellness",
       "Personal Growth", "Creativity & Hobbies", "Emotions & Mental Health",
       "Daily Life & Routine", "Nature & Outdoors" >>

ThemeThreshold == 30    \* score > 0.3
MaxThemes == 3          \* len(top_themes) < 3

\* The zero-shot pipeline scores every candidate label and lists the labels
\* by descending score; labels of equal score come in candidate order or in
\* reverse candidate order (rev).
RECURSIVE RankDesc(_, _, _)
RankDesc(rem, scores, rev) ==
    IF rem = {} THEN <<>>
    ELSE LET best == CHOOSE i \in rem : \A j \in rem :
                         \/ scores[i] > scores[j]
                         \/ /\ scores[i] = scores[j]
                            /\ IF rev THEN i >= j ELSE i <= j
         IN  <<best>> \o RankDesc(rem \ {best}, scores, rev)

theme_classifier(candidate_labels, scores, rev) ==
    LET order == RankDesc(DOMAIN candidate_labels, scores, rev)
    IN  [labels |-> [k \in DOMAIN order |-> candidate_labels[order[k]]],
         scores |-> [k \in DOMAIN order |-> scores[order[k]]]]

\* faulty variant of TopThemes: the threshold test is >= instead of >
RECURSIVE TopThemes_AtLeast(_, _, _)
TopThemes_AtLeast(theme_result, k, top_themes) ==
    IF k > Len(theme_result.labels) THEN top_themes
    ELSE TopThemes_AtLeast(theme_result, k + 1,
             IF theme_result.scores[k] >= ThemeThreshold /\ Len(top_themes) < MaxThemes
             THEN Append(top_themes, <<theme_result.labels[k], theme_result.scores[k]>>)
             ELSE top_themes)

\* the loop over zip(theme_result['labels'], theme_result['scores'])
RECURSIVE TopThemes(_, _, _)
TopThemes(theme_result, k, top_themes) ==
    IF k > Len(theme_result.labels) THEN top_themes
    ELSE TopThemes(theme_result, k + 1,
             IF theme_result.scores[k] > ThemeThreshold /\ Len(top_themes) < MaxThemes
             THEN Append(top_themes, <<theme_result.labels[k], theme_result.scores[k]>>)
             ELSE top_themes)

\* analyze_entry(text), given what the two models answer for the text
analyze_entry(sentiment, theme_result) ==
    [sentiment |-> sentiment.label,
     sentiment_score |-> sentiment.score,
     themes |-> TopThemes(theme_result, 1, <<>>)]

\* ---- reply generator (app.py generate_response) ---------------------------
ErrorPrefix == <<"I'm having trouble connecting right now. Error: ">>

\* faulty variant of generate_response: the apology leaves out str(e)
generate_response_NoDetail(entry_text, analysis, chat) ==
    IF chat.ok THEN chat.text ELSE ErrorPrefix

\* chat is the outcome of groq_client.chat.completions.create: a completion
\* or an exception with its str(e)
generate_response(entry_text, analysis, chat) ==
    IF chat.ok THEN chat.text ELSE ErrorPrefix \o chat.text

\* ---- journal store (database.py) ------------------------------------------
\* A database file is [entries |-> the rows of table entries,
\*                     seq |-> the AUTOINCREMENT counter of the table].
\* A row is [id, entry_date, conversation, overall_sentiment,
\* sentiment_score, themes, mood_color]; created_at and updated_at are
\* written but never read by any query and are left out.
EmptyFile == [entries |-> {}, seq |-> 0]

JsonEmptyList == <<"[", "]">>     \* the SQL literal '[]'

\* SELECT ... FROM entries WHERE entry_date = ?
SelectByDate(file, d) == {r \in file.entries : r.entry_date = d}

\* datetime.now().isoformat(), to the day
isoformat(now) == <<ToString(now)>>

\* faulty variant of _notify_after_commit: the callback is never called
_notify_after_commit_Skipped(after_commit, hook_ok, file, drv) ==
    [drive |-> drv, hook_calls |-> 0, hook_saw |-> NULL,
     hook_raised |-> FALSE, raised |-> NULL]

\* faulty variant of _notify_after_commit: no try/except around the callback
_notify_after_commit_Propagates(after_commit, hook_ok, file, drv) ==
    [drive |-> IF after_commit # NULL /\ hook_ok THEN Some(file) ELSE drv,
     hook_calls |-> IF after_commit # NULL THEN 1 ELSE 0,
     hook_saw |-> IF after_commit # NULL THEN Some(file) ELSE NULL,
     hook_raised |-> after_commit # NULL /\ ~hook_ok,
     raised |-> IF after_commit # NULL /\ ~hook_ok THEN Some("after_commit") ELSE NULL]

\* _notify_after_commit(): calls the registered callback, if any, with the
\* file as it is at the time of the call.  hook_ok tells whether the callback
\* returns or raises; an exception is caught and printed.
_notify_after_commit(after_commit, hook_ok, file, drv) ==
    [drive |-> IF after_commit # NULL /\ hook_ok THEN Some(file) ELSE drv,
     hook_calls |-> IF after_commit # NULL THEN 1 ELSE 0,
     hook_saw |-> IF after_commit # NULL THEN Some(file) ELSE NULL,
     hook_raised |-> after_commit # NULL /\ ~hook_ok,
     raised |-> NULL]

\* conn.commit(), _notify_after_commit(), conn.close(), return: the file
\* as committed (c), the outcome n of the notification and the result
Committed(c, existed, n) ==
    [file |-> [entries |-> c.entries, seq |-> c.seq],
     entry_id |-> c.entry_id, existed |-> existed,
     notify |-> n, raised |-> n.raised]

CommitAndNotify(c, existed, after_commit, hook_ok, drv) ==
    Committed(c, existed,
        _notify_after_commit(after_commit, hook_ok,
            [entries |-> c.entries, seq |-> c.seq], drv))

\* message_data
MessageData(user_message, ai_response, now) ==
    [user |-> user_message, luna |-> ai_response, timestamp |-> isoformat(now)]

\* faulty variant of AppendToExisting: the stored conversation is replaced by
\* the new message instead of being extended
AppendToExisting_Overwrite(file, row, message_data) ==
    [entries |->
         {IF r.id = row.id
          THEN [r EXCEPT !.conversation = json_dumps_conversation(<<message_data>>)]
          ELSE r : r \in file.entries},
     seq |-> file.seq,
     entry_id |-> row.id]

\* faulty variant of AppendToExisting: the conversation is read again when it
\* is written (the read and the write are one transaction)
AppendToExisting_Reread(file, row, message_data) ==
    [entries |->
         {IF r.id = row.id
          THEN [r EXCEPT !.conversation =
                    json_dumps_conversation(
                        Append(json_loads_conversation(r.conversation), message_data))]
          ELSE r : r \in file.entries},
     seq |-> file.seq,
     entry_id |-> row.id]

\* the branch "if existing": UPDATE entries SET conversation = ? WHERE id = ?
\* row is what the SELECT fetched
AppendToExisting(file, row, message_data) ==
    [entries |->
         {IF r.id = row.id
          THEN [r EXCEPT !.conversation =
                    json_dumps_conversation(
                        Append(json_loads_conversation(row.conversation), message_data))]
          ELSE r : r \in file.entries},
     seq |-> file.seq,
     entry_id |-> row.id]

\* the branch "else": INSERT INTO entries (entry_date, conversation,
\* overall_sentiment, sentiment_score, themes)
InsertNew(file, today, message_data, sentiment, sentiment_score, themes) ==
    [entries |-> file.entries \cup
         {[id |-> file.seq + 1,
           entry_date |-> today,
           conversation |-> json_dumps_conversation(<<message_data>>),
           overall_sentiment |-> Some(sentiment),
           sentiment_score |-> Some(sentiment_score),
           themes |-> Some(json_dumps_themes(themes)),
           mood_color |-> NULL]},
     seq |-> file.seq + 1,
     entry_id |-> file.seq + 1]

\* save_conversation_message(user_message, ai_response, sentiment,
\* sentiment_score, themes)
save_conversation_message(file, after_commit, hook_ok, drv, today, user_message, ai_response, sentiment, sentiment_score, themes) ==
    CommitAndNotify(
        IF SelectByDate(file, today) # {}
        THEN AppendToExisting(file, CHOOSE r \in SelectByDate(file, today) : TRUE,
                 MessageData(user_message, ai_response, today))
        ELSE InsertNew(file, today, MessageData(user_message, ai_response, today),
                 sentiment, sentiment_score, themes),
        SelectByDate(file, today) # {}, after_commit, hook_ok, drv)

\* delete_entry(entry_id)
delete_entry(file, after_commit, hook_ok, drv, entry_id) ==
    CommitAndNotify(
        [entries |-> {r \in file.entries : r.id # entry_id},
         seq |-> file.seq, entry_id |-> entry_id],
        \E r \in file.entries : r.id = entry_id, after_commit, hook_ok, drv)

\* faulty variant of save_mood_color: inserts without looking for today's row
save_mood_color_AlwaysInsert(file, after_commit, hook_ok, drv, today, color) ==
    CommitAndNotify(
        [entries |-> file.entries \cup
             {[id |-> file.seq + 1,
               entry_date |-> today,
               conversation |-> json_dumps_conversation(<<>>),
               overall_sentiment |-> NULL,
               sentiment_score |-> NULL,
               themes |-> NULL,
               mood_color |-> Some(color)]},
         seq |-> file.seq + 1, entry_id |-> 0],
        SelectByDate(file, today) # {}, after_commit, hook_ok, drv)

\* faulty variant of save_mood_color: the update rewrites the whole row
\* (INSERT OR REPLACE), losing the conversation and the analysis
save_mood_color_ReplacesRow(file, after_commit, hook_ok, drv, today, color) ==
    CommitAndNotify(
        [entries |-> {r \in file.entries : r.entry_date # today} \cup
             {[id |-> IF SelectByDate(file, today) # {}
                      THEN (CHOOSE r \in SelectByDate(file, today) : TRUE).id
                      ELSE file.seq + 1,
               entry_date |-> today,
               conversation |-> json_dumps_conversation(<<>>),
               overall_sentiment |-> NULL,
               sentiment_score |-> NULL,
               themes |-> NULL,
               mood_color |-> Some(color)]},
         seq |-> IF SelectByDate(file, today) # {} THEN file.seq ELSE file.seq + 1,
         entry_id |-> 0],
        SelectByDate(file, today) # {}, after_commit, hook_ok, drv)

\* save_mood_color(color)
save_mood_color(file, after_commit, hook_ok, drv, today, color) ==
    CommitAndNotify(
        IF SelectByDate(file, today) # {}
        THEN [entries |->
                  {IF r.entry_date = today
                   THEN [r EXCEPT !.mood_color = Some(color)]
                   ELSE r : r \in file.entries},
              seq |-> file.seq, entry_id |-> 0]
        ELSE [entries |-> file.entries \cup
                  {[id |-> file.seq + 1,
                    entry_date |-> today,
                    conversation |-> json_dumps_conversation(<<>>),
                    overall_sentiment |-> NULL,
                    sentiment_score |-> NULL,
                    themes |-> NULL,
                    mood_color |-> Some(color)]},
              seq |-> file.seq + 1, entry_id |-> 0],
        SelectByDate(file, today) # {}, after_commit, hook_ok, drv)

\* get_entry_by_date(entry_date): NULL, or the row with its JSON columns loaded
get_entry_by_date(file, entry_date) ==
    LET found == SelectByDate(file, entry_date)
    IN  IF found = {} THEN NULL
        ELSE LET row == CHOOSE r \in found : TRUE
             IN  Some([id |-> row.id,
                       entry_date |-> row.entry_date,
                       conversation |-> json_loads_conversation(row.conversation),
                       sentiment |-> row.overall_sentiment,
                       sentiment_score |-> row.sentiment_score,
                       themes |-> json_loads_themes(row.themes),
                       mood_color |-> row.mood_color])

\* the loaded conversation of date d's row, [] when there is none
ConversationAt(file, d) ==
    IF SelectByDate(file, d) = {} THEN <<>>
    ELSE json_loads_conversation((CHOOSE r \in SelectByDate(file, d) : TRUE).conversation)

\* get_mood_color_for_today()
get_mood_color_for_today(file, today) ==
    LET found == SelectByDate(file, today)
    IN  IF found = {} THEN NULL ELSE (CHOOSE r \in found : TRUE).mood_color

\* faulty variant of WithContent: the WHERE clause is missing
WithContent_AllRows(file) == file.entries

\* the rows WHERE conversation != '[]'
WithContent(file) == {r \in file.entries : r.conversation # JsonEmptyList}

\* str.upper() on the sentiment labels
upper(label) ==
    CASE label = "positive" -> "POSITIVE"
      [] label = "negative" -> "NEGATIVE"
      [] label = "neutral" -> "NEUTRAL"
      [] OTHER -> label

\* faulty variant of SentimentCounts: the grouping is restricted to the rows
\* WHERE conversation != '[]', and a row without a label counts as neutral
SentimentCounts_ContentRows(file) ==
    [k \in {"POSITIVE", "NEGATIVE", "NEUTRAL"} \cap
            {IF r.overall_sentiment = NULL THEN "NEUTRAL"
             ELSE upper(r.overall_sentiment[1]) : r \in WithContent(file)} |->
        Cardinality({r \in WithContent(file) :
                        (IF r.overall_sentiment = NULL THEN "NEUTRAL"
                         ELSE upper(r.overall_sentiment[1])) = k})]

\* SELECT overall_sentiment, COUNT(*) FROM entries WHERE overall_sentiment
\* IS NOT NULL GROUP BY overall_sentiment, keyed by row[0].upper()
SentimentCounts(file) ==
    [k \in {upper(r.overall_sentiment[1]) :
                r \in {q \in file.entries : q.overall_sentiment # NULL}} |->
        Cardinality({r \in file.entries :
                        /\ r.overall_sentiment # NULL
                        /\ upper(r.overall_sentiment[1]) = k})]

\* faulty variant of get_stats: the MAX(entry_date) query misses its WHERE
\* clause
get_stats_LatestOfAllRows(file) ==
    [total_entries |-> Cardinality(WithContent(file)),
     sentiment_counts |-> SentimentCounts(file),
     last_entry |-> IF file.entries = {} THEN NULL
                    ELSE Some(CHOOSE d \in {r.entry_date : r \in file.entries} :
                                  \A r \in file.entries : r.entry_date <= d)]

\* get_stats(): total_entries, sentiment_counts and last_entry
get_stats(file) ==
    LET content == WithContent(file)
    IN  [total_entries |-> Cardinality(content),
         sentiment_counts |-> SentimentCounts(file),
         last_entry |-> IF content = {} THEN NULL
                        ELSE Some(CHOOSE d \in {r.entry_date : r \in content} :
                                      \A r \in content : r.entry_date <= d)]

\* a fetched row with its JSON columns loaded (the dict the readers build)
LoadRow(row) ==
    [id |-> row.id,
     entry_date |-> row.entry_date,
     conversation |-> json_loads_conversation(row.conversation),
     sentiment |-> row.overall_sentiment,
     sentiment_score |-> row.sentiment_score,
     themes |-> json_loads_themes(row.themes),
     mood_color |-> row.mood_color]

LoadRows(rows) == [k \in DOMAIN rows |-> LoadRow(rows[k])]

\* ORDER BY entry_date DESC
RECURSIVE OrderByDateDesc(_)
OrderByDateDesc(rows) ==
    IF rows = {} THEN <<>>
    ELSE LET top == CHOOSE r \in rows : \A q \in rows : q.entry_date <= r.entry_date
         IN  <<top>> \o OrderByDateDesc(rows \ {top})

\* app.py get_weekly_entries(); utc_today is SQLite's date('now'), the UTC date
get_weekly_entries(file, utc_today) ==
    LoadRows(OrderByDateDesc({r \in file.entries :
                                 /\ r.entry_date >= utc_today - WeekDays
                                 /\ r.conversation # JsonEmptyList}))

\* date('now') is the UTC date: the local date, or the day before or after it
UtcDates(today) == {today - 1, today, today + 1}

\* LIMIT ?
Limit(rows, limit) == IF Len(rows) > limit THEN SubSeq(rows, 1, limit) ELSE rows

HistoryLimit == 50     \* db.get_all_entries(limit=50)

\* faulty variant of get_all_entries: ORDER BY entry_date ASC
get_all_entries_OldestFirst(file, limit) ==
    LoadRows(Limit([k \in DOMAIN OrderByDateDesc(file.entries) |->
                       OrderByDateDesc(file.entries)[Cardinality(file.entries) + 1 - k]],
                   limit))

\* get_all_entries(limit): SELECT ... FROM entries ORDER BY entry_date DESC LIMIT ?
get_all_entries(file, limit) ==
    LoadRows(Limit(OrderByDateDesc(file.entries), limit))

\* SQLite compares the letters of a LIKE pattern without regard to case
FoldCase(c) ==
    CASE c = "RAN" -> "ran"
      [] c = "BOSS" -> "boss"
      [] c = "CALL" -> "call"
      [] c = "OFF" -> "off"
      [] OTHER -> c

\* SQLite's  text LIKE pattern : '%' stands for any run of symbols, '_' for
\* any one symbol, every other symbol for itself up to letter case.  A text
\* is a sequence of symbols; LikeFrom matches pattern from i on against text
\* from j on.
RECURSIVE LikeFrom(_, _, _, _)
LikeFrom(pattern, i, text, j) ==
    IF i > Len(pattern) THEN j > Len(text)
    ELSE IF pattern[i] = "%"
    THEN \/ LikeFrom(pattern, i + 1, text, j)
         \/ j <= Len(text) /\ LikeFrom(pattern, i, text, j + 1)
    ELSE /\ j <= Len(text)
         /\ \/ pattern[i] = "_"
            \/ FoldCase(pattern[i]) = FoldCase(text[j])
         /\ LikeFrom(pattern, i + 1, text, j + 1)

sql_like(pattern, text) == LikeFrom(pattern, 1, text, 1)

\* faulty variant of search_entries: the term is matched as a literal,
\* case-sensitive substring (instr) instead of as a LIKE pattern
search_entries_Literal(file, search_term) ==
    LoadRows(OrderByDateDesc(
        {r \in file.entries :
            \/ Contains(isoformat(r.entry_date), search_term)
            \/ Contains(r.conversation, search_term)}))

\* search_entries(search_term): WHERE entry_date LIKE ? OR conversation LIKE ?
\* ORDER BY entry_date DESC, both parameters f'%{search_term}%'
search_entries(file, search_term) ==
    LoadRows(OrderByDateDesc(
        {r \in file.entries :
            \/ sql_like(<<"%">> \o search_term \o <<"%">>, isoformat(r.entry_date))
            \/ sql_like(<<"%">> \o search_term \o <<"%">>, r.conversation)}))

\* ---- mood colors (app.py MOOD_COLORS, save_mood_color_handler) ------------
MOOD_COLORS ==
    [calm |-> "#FFFFFF", happy |-> "#FFF44F", energetic |-> "#FF6347",
     anxious |-> "#9370DB", sad |-> "#4169E1", angry |-> "#DC143C"]

\* f"{mood_name}:{color_hex}"
ColorTag(mood_name) == mood_name \o ":" \o MOOD_COLORS[mood_name]

\* ---- rendered views (app.py format_*, load_history, search_history) --------
\* A rendered text is the record of what it shows.
\* format_analysis_display(analysis)
format_analysis_display(analysis) ==
    [sentiment |-> analysis.sentiment,
     sentiment_score |-> analysis.sentiment_score,
     themes |-> analysis.themes]

\* the analysis panel's initial text, and the empty string
AnalysisPlaceholder == [text |-> "Analysis Panel"]
EmptyText == [text |-> ""]

\* mood_name = entry['mood_color'].split(':')[0] and its MOOD_COLORS entry
MoodShown(tag) ==
    LET mood_name == CHOOSE n \in DOMAIN MOOD_COLORS : ColorTag(n) = tag
    IN  [name |-> mood_name, color |-> MOOD_COLORS[mood_name]]

\* format_entry_for_display(entry)
format_entry_for_display(entry) ==
    [entry_date |-> isoformat(entry.entry_date),
     message_count |-> Len(entry.conversation),
     sentiment |-> entry.sentiment,
     themes |-> IF entry.themes # <<>> THEN entry.themes ELSE <<"No themes">>,
     mood |-> IF entry.mood_color # NULL THEN Some(MoodShown(entry.mood_color[1]))
              ELSE NULL,
     messages |-> [k \in DOMAIN entry.conversation |->
                      [you |-> entry.conversation[k].user,
                       luna |-> entry.conversation[k].luna]]]

\* the heading with len(entries) days, then every entry formatted
HistoryText(heading, entries) ==
    [heading |-> heading,
     days |-> Len(entries),
     entries |-> [k \in DOMAIN entries |-> format_entry_for_display(entries[k])]]

\* the text of load_history() for the fetched entries
HistoryOf(entries) ==
    IF entries = <<>>
    THEN [text |-> "No entries yet. Start journaling to see your history here!"]
    ELSE HistoryText(<<"Your Journal History">>, entries)

\* load_history()
load_history(file) == HistoryOf(get_all_entries(file, HistoryLimit))

\* the text of search_history(search_term) for the entries found
SearchResultsOf(search_term, entries) ==
    IF entries = <<>>
    THEN [text |-> "No entries found matching", term |-> search_term]
    ELSE HistoryText(<<"Search Results for">> \o search_term, entries)

\* search_history(search_term)
search_history(file, search_term) ==
    IF strip(search_term) = <<>>
    THEN load_history(file)
    ELSE SearchResultsOf(search_term, search_entries(file, search_term))

\* dict.get(key, default)
DictGet(dict, key, default) == IF key \in DOMAIN dict THEN dict[key] ELSE default

\* the texts of format_stats_bar() and format_stats_sidebar() for stats
StatsBarOf(stats) ==
    [days_journaled |-> stats.total_entries,
     last_journal_date |-> IF stats.last_entry = NULL THEN <<"Never">>
                           ELSE isoformat(stats.last_entry[1])]

StatsSidebarOf(stats) ==
    [total |-> stats.total_entries,
     positive |-> DictGet(stats.sentiment_counts, "POSITIVE", 0),
     neutral |-> DictGet(stats.sentiment_counts, "NEUTRAL", 0),
     negative |-> DictGet(stats.sentiment_counts, "NEGATIVE", 0)]

\* format_stats_bar()
format_stats_bar(file) == StatsBarOf(get_stats(file))

\* format_stats_sidebar()
format_stats_sidebar(file) == StatsSidebarOf(get_stats(file))

\* the four texts a turn emits besides the chat log
Views(file, analysis_display) ==
    [analysis_display |-> analysis_display,
     history_display |-> load_history(file),
     stats_bar_display |-> format_stats_bar(file),
     stats_sidebar_display |-> format_stats_sidebar(file)]

\* ---- weekly summarizer (app.py generate_weekly_wrap) -----------------------
\* all_messages: every message of the week with its date
WeekText(entries) ==
    [k \in DOMAIN entries |->
        [date |-> isoformat(entries[k].entry_date),
         messages |-> [j \in DOMAIN entries[k].conversation |->
                          [you |-> entries[k].conversation[j].user,
                           luna |-> entries[k].conversation[j].luna]]]]

\* "[List" in wrap_content or "[A short" in wrap_content
HasPlaceholder(wrap_content) ==
    Contains(wrap_content, <<"[List">>) \/ Contains(wrap_content, <<"[A short">>)

\* f"{entries[-1]['entry_date']} to {entries[0]['entry_date']}" and the count
WeekRange(entries) ==
    [from |-> isoformat(entries[Len(entries)].entry_date),
     to |-> isoformat(entries[1].entry_date),
     days |-> Len(entries)]

\* faulty variant of WeeklyWrapOf: the check for echoed placeholders is missing
WeeklyWrapOf_NoPostCheck(entries, chat) ==
    IF entries = <<>>
    THEN [panel |-> "No entries found for the past 7 days",
          chat_calls |-> 0, prompt |-> <<>>, raised |-> NULL]
    ELSE IF ~chat.ok
    THEN [panel |-> "Unable to generate", found |-> Len(entries),
          error_details |-> chat.text,
          chat_calls |-> 1, prompt |-> WeekText(entries), raised |-> NULL]
    ELSE [panel |-> "Weekly Wrap", range |-> WeekRange(entries),
          wrap_content |-> chat.text,
          chat_calls |-> 1, prompt |-> WeekText(entries), raised |-> NULL]

\* faulty variant of WeeklyWrapOf: the chat-model call is outside the try
\* block and its failure propagates
WeeklyWrapOf_Uncaught(entries, chat) ==
    IF entries = <<>>
    THEN [panel |-> "No entries found for the past 7 days",
          chat_calls |-> 0, prompt |-> <<>>, raised |-> NULL]
    ELSE IF ~chat.ok
    THEN [panel |-> "none", chat_calls |-> 1, prompt |-> WeekText(entries),
          raised |-> Some(chat.text)]
    ELSE IF HasPlaceholder(chat.text)
    THEN [panel |-> "Not enough content", range |-> WeekRange(entries),
          chat_calls |-> 1, prompt |-> WeekText(entries), raised |-> NULL]
    ELSE [panel |-> "Weekly Wrap", range |-> WeekRange(entries),
          wrap_content |-> chat.text,
          chat_calls |-> 1, prompt |-> WeekText(entries), raised |-> NULL]

\* the text generate_weekly_wrap() returns for the entries of the week, chat
\* being the outcome of the chat-model call
WeeklyWrapOf(entries, chat) ==
    IF entries = <<>>
    THEN [panel |-> "No entries found for the past 7 days",
          chat_calls |-> 0, prompt |-> <<>>, raised |-> NULL]
    ELSE IF ~chat.ok
    THEN [panel |-> "Unable to generate", found |-> Len(entries),
          error_details |-> chat.text,
          chat_calls |-> 1, prompt |-> WeekText(entries), raised |-> NULL]
    ELSE IF HasPlaceholder(chat.text)
    THEN [panel |-> "Not enough content", range |-> WeekRange(entries),
          chat_calls |-> 1, prompt |-> WeekText(entries), raised |-> NULL]
    ELSE [panel |-> "Weekly Wrap", range |-> WeekRange(entries),
          wrap_content |-> chat.text,
          chat_calls |-> 1, prompt |-> WeekText(entries), raised |-> NULL]

\* generate_weekly_wrap()
generate_weekly_wrap(file, utc_today, chat) ==
    WeeklyWrapOf(get_weekly_entries(file, utc_today), chat)

\* ---- inputs ----------------------------------------------------------------
Messages == { <<"ran">>, <<"boss", "call">>, <<WS>> }
MoodNames == {"calm", "sad"}
ChatOutcomes ==
    { [ok |-> TRUE, text |-> <<"tell", "me", "more">>],
      [ok |-> FALSE, text |-> <<"timeout">>] }

\* what the sentiment model and the theme model answer for a text: the models
\* are deterministic in the text
ModelAnswer(message) ==
    IF message = <<"ran">>
    THEN [ok |-> TRUE, sentiment |-> [label |-> "positive", score |-> 90],
          scores |-> <<30, 10, 90, 10, 10, 31, 10, 10>>, rev |-> FALSE]
    ELSE [ok |-> TRUE, sentiment |-> [label |-> "negative", score |-> 80],
          scores |-> <<30, 20, 10, 10, 10, 30, 10, 10>>, rev |-> TRUE]

\* one of the two models raises
ModelRaises ==
    [ok |-> FALSE, sentiment |-> [label |-> "neutral", score |-> 0],
     scores |-> <<0, 0, 0, 0, 0, 0, 0, 0>>, rev |-> FALSE]

\* the analyzer's models are called on a non-blank message only
ModelOutcomes(message) ==
    IF strip(message) = <<>> THEN {ModelAnswer(message)}
    ELSE {ModelAnswer(message), ModelRaises}

\* outcomes of the turn's chat-model call, made once the analysis is there
TurnChatOutcomes(message, out) ==
    IF strip(message) # <<>> /\ out.ok THEN ChatOutcomes
    ELSE {[ok |-> TRUE, text |-> <<>>]}

\* outcomes of the sync callback, run when one is registered
HookOutcomes(hook) == IF hook = NULL THEN {TRUE} ELSE BOOLEAN

ScoreValues == {30, 31, 60, 90}

\* what the user types in the search box
SearchTerms == { <<"RAN">>, <<"boss", "_">>, <<WS>> }

\* outcomes of the weekly summarizer's chat-model call: a summary, an echo of
\* the prompt's placeholders, a failure
WeeklyChatOutcomes ==
    { [ok |-> TRUE, text |-> <<"## Gratitude This Week", "your", "run">>],
      [ok |-> TRUE, text |-> <<"## Reflection", "[A short", "warm", "reflection">>],
      [ok |-> TRUE, text |-> <<"## Gratitude This Week", "[List", "the", "things">>],
      [ok |-> FALSE, text |-> <<"rate", "limit">>] }

\* ---- state -----------------------------------------------------------------
VARIABLES
    file,           \* the database file at _db_path
    drive,          \* the copy of the file in remote storage, NULL if none
    after_commit,   \* database._after_commit: NULL or the registered callback
    today,          \* datetime.now().date()
    history,        \* the chat log shown (chat_interface's history)
    ops,            \* steps so far
    last,           \* what the last handler did and returned
    submitted,      \* per date: the messages saved since the date's row was deleted
    probe,          \* analyzer under test: model answer and analyze_entry's result
    shown,          \* the texts on display: analysis, history, both statistics
    race,           \* the threads inside save_conversation_message
    session         \* the login state: active path, user, files on disk, the user's Drive

vars == <<file, drive, after_commit, today, history, ops, last, submitted, probe, shown, race, session>>

NoOp ==
    [op |-> "none", date |-> 0, existed |-> FALSE, blank |-> FALSE,
     raised |-> NULL, entry_id |-> 0,
     analyzer_failed |-> FALSE, chat_failed |-> FALSE,
     analyzer_calls |-> 0, generator_calls |-> 0,
     store_calls |-> 0, hook_calls |-> 0, hook_raised |-> FALSE, hook_saw |-> NULL,
     message |-> <<>>, ai_response |-> <<>>, error_text |-> <<>>,
     sentiment |-> NULL, sentiment_score |-> NULL, themes |-> NULL,
     color |-> NULL,
     search_term |-> <<>>, chat_calls |-> 0, returned |-> NULL, limit |-> 0]

\* the default local database is active, nobody is logged in (the sessions
\* are the subject of SpecSession)
NoSession == <<>>

\* no thread is inside save_conversation_message
NoRace == [th |-> <<>>, commits |-> <<>>, base |-> <<>>]

NoProbe == [done |-> FALSE, scores |-> <<>>, rev |-> FALSE, themes |-> <<>>]

Init ==
    /\ file = EmptyFile
    /\ drive = NULL
    /\ after_commit = NULL
    /\ today = 1
    /\ history = <<>>
    /\ ops = 0
    /\ last = NoOp
    /\ submitted = [d \in Days |-> <<>>]
    /\ probe = NoProbe
    /\ shown = Views(EmptyFile, AnalysisPlaceholder)
    /\ race = NoRace
    /\ session = NoSession

\* ---- handlers --------------------------------------------------------------
\* the record of a turn on message, started with a row for the day or not
Turn(f, day, message) ==
    [NoOp EXCEPT !.op = "chat_interface", !.date = day, !.message = message,
                 !.existed = SelectByDate(f, day) # {}]

\* themes_list = [theme for theme, _ in analysis['themes']]
ThemesList(themes) == [k \in DOMAIN themes |-> themes[k][1]]

\* faulty variant of Rendered: an exception of the store is swallowed and the
\* reply is shown all the same
Rendered_ShowsReplyAnyway(turn, log, message, chat, analysis, ai_response, s) ==
    [file |-> s.file, drive |-> s.notify.drive,
     history |-> log \o << [role |-> "user", content |-> message],
                           [role |-> "assistant", content |-> ai_response] >>,
     views |-> Some(Views(s.file, format_analysis_display(analysis))),
     saved |-> TRUE,
     last |-> [turn EXCEPT !.store_calls = 1, !.raised = s.raised]]

\* after db.save_conversation_message returned s: new_history and the return
Rendered(turn, log, message, chat, analysis, ai_response, s) ==
    [file |-> s.file, drive |-> s.notify.drive,
     history |-> IF s.raised = NULL
                 THEN log \o << [role |-> "user", content |-> message],
                                [role |-> "assistant", content |-> ai_response] >>
                 ELSE log,
     views |-> IF s.raised = NULL
               THEN Some(Views(s.file, format_analysis_display(analysis)))
               ELSE NULL,
     saved |-> TRUE,
     last |-> [turn EXCEPT !.analyzer_calls = 1,
                           !.generator_calls = 1,
                           !.chat_failed = ~chat.ok,
                           !.error_text = IF chat.ok THEN <<>> ELSE chat.text,
                           !.store_calls = 1,
                           !.ai_response = ai_response,
                           !.sentiment = Some(analysis.sentiment),
                           !.sentiment_score = Some(analysis.sentiment_score),
                           !.themes = Some(ThemesList(analysis.themes)),
                           !.entry_id = s.entry_id,
                           !.hook_calls = s.notify.hook_calls,
                           !.hook_raised = s.notify.hook_raised,
                           !.hook_saw = s.notify.hook_saw,
                           !.raised = s.raised]]

\* faulty variant of Persisting: the history and statistics texts are
\* rendered before the message is saved
Persisting_RendersBeforeSave(f, hook, drv, day, log, message, chat, hook_ok, analysis, ai_response) ==
    [Rendered(Turn(f, day, message), log, message, chat, analysis, ai_response,
        save_conversation_message(f, hook, hook_ok, drv, day, message, ai_response,
            analysis.sentiment, analysis.sentiment_score, ThemesList(analysis.themes)))
     EXCEPT !.views = Some(Views(f, format_analysis_display(analysis)))]

\* entry_id = db.save_conversation_message(...)
Persisting(f, hook, drv, day, log, message, chat, hook_ok, analysis, ai_response) ==
    Rendered(Turn(f, day, message), log, message, chat, analysis, ai_response,
        save_conversation_message(f, hook, hook_ok, drv, day, message, ai_response,
            analysis.sentiment, analysis.sentiment_score, ThemesList(analysis.themes)))

\* ai_response = generate_response(message, analysis)
Generating(f, hook, drv, day, log, message, chat, hook_ok, analysis) ==
    Persisting(f, hook, drv, day, log, message, chat, hook_ok, analysis,
        generate_response(message, analysis, chat))

\* faulty variant of chat_interface: an analyzer failure is swallowed and the
\* turn goes on with a neutral analysis
chat_interface_Fallback(f, hook, drv, day, log, message, out, chat, hook_ok) ==
    IF strip(message) = <<>>
    THEN [file |-> f, drive |-> drv, history |-> log,
          views |-> Some(Views(f, EmptyText)), saved |-> FALSE,
          last |-> [Turn(f, day, message) EXCEPT !.blank = TRUE]]
    ELSE IF ~out.ok
    THEN LET t == Generating(f, hook, drv, day, log, message, chat, hook_ok,
                      [sentiment |-> "neutral", sentiment_score |-> 0, themes |-> <<>>])
         IN  [t EXCEPT !.last.analyzer_failed = TRUE]
    ELSE Generating(f, hook, drv, day, log, message, chat, hook_ok,
             analyze_entry(out.sentiment, theme_classifier(THEMES, out.scores, out.rev)))

\* faulty variant of chat_interface: the guard on a blank message is missing
chat_interface_NoBlankCheck(f, hook, drv, day, log, message, out, chat, hook_ok) ==
    IF ~out.ok
    THEN [file |-> f, drive |-> drv, history |-> log, views |-> NULL, saved |-> FALSE,
          last |-> [Turn(f, day, message) EXCEPT !.analyzer_calls = 1,
                                                 !.analyzer_failed = TRUE,
                                                 !.raised = Some("analyze_entry")]]
    ELSE Generating(f, hook, drv, day, log, message, chat, hook_ok,
             analyze_entry(out.sentiment, theme_classifier(THEMES, out.scores, out.rev)))

\* chat_interface(message, history): the turn.  out is what the analyzer's
\* models answer, chat the outcome of the chat-model call, hook_ok whether the
\* sync callback returns.  Yields the file, the remote copy, the chat log
\* returned and the record of the turn; an exception of analyze_entry
\* propagates to the caller and no text is emitted (views is NULL).
chat_interface(f, hook, drv, day, log, message, out, chat, hook_ok) ==
    IF strip(message) = <<>>
    THEN [file |-> f, drive |-> drv, history |-> log,
          views |-> Some(Views(f, EmptyText)), saved |-> FALSE,
          last |-> [Turn(f, day, message) EXCEPT !.blank = TRUE]]
    ELSE IF ~out.ok
    THEN [file |-> f, drive |-> drv, history |-> log, views |-> NULL, saved |-> FALSE,
          last |-> [Turn(f, day, message) EXCEPT !.analyzer_calls = 1,
                                                 !.analyzer_failed = TRUE,
                                                 !.raised = Some("analyze_entry")]]
    ELSE Generating(f, hook, drv, day, log, message, chat, hook_ok,
             analyze_entry(out.sentiment, theme_classifier(THEMES, out.scores, out.rev)))

\* the record of a store handler that returned s
StoreOp(op, day, color, s) ==
    [NoOp EXCEPT !.op = op, !.date = day,
                 !.existed = s.existed,
                 !.store_calls = 1,
                 !.entry_id = s.entry_id,
                 !.color = color,
                 !.hook_calls = s.notify.hook_calls,
                 !.hook_raised = s.notify.hook_raised,
                 !.hook_saw = s.notify.hook_saw,
                 !.raised = s.raised]

TurnDone(t, message) ==
    /\ file' = t.file
    /\ drive' = t.drive
    /\ history' = t.history
    /\ last' = t.last
    /\ shown' = IF t.views = NULL THEN shown ELSE t.views[1]
    /\ submitted' = IF t.saved
                    THEN [submitted EXCEPT ![today] = Append(@, message)]
                    ELSE submitted

ChatInterface(message, out, chat, hook_ok) ==
    /\ ops < MaxOps
    /\ TurnDone(chat_interface(file, after_commit, drive, today, history,
                               message, out, chat, hook_ok), message)
    /\ ops' = ops + 1
    /\ UNCHANGED <<after_commit, today, probe, race, session>>

StoreDone(op, color, s) ==
    /\ file' = s.file
    /\ drive' = s.notify.drive
    /\ last' = StoreOp(op, today, color, s)

\* save_mood_color_handler(mood_name)
SaveMoodColorHandler(mood_name, hook_ok) ==
    /\ ops < MaxOps
    /\ StoreDone("save_mood_color", Some(ColorTag(mood_name)),
           save_mood_color(file, after_commit, hook_ok, drive, today,
                           ColorTag(mood_name)))
    /\ ops' = ops + 1
    /\ UNCHANGED <<after_commit, today, history, submitted, probe, shown, race, session>>

\* delete_entry(entry_id)
DeleteEntry(entry_id, hook_ok) ==
    /\ ops < MaxOps
    /\ StoreDone("delete_entry", NULL,
           delete_entry(file, after_commit, hook_ok, drive, entry_id))
    /\ submitted' = [d \in Days |->
                        IF \E r \in file.entries : r.id = entry_id /\ r.entry_date = d
                        THEN <<>> ELSE submitted[d]]
    /\ ops' = ops + 1
    /\ UNCHANGED <<after_commit, today, history, probe, shown, race, session>>

\* set_after_commit(callback)
SetAfterCommit(callback) ==
    /\ ops < MaxOps
    /\ after_commit # callback
    /\ after_commit' = callback
    /\ last' = [NoOp EXCEPT !.op = "set_after_commit", !.date = today]
    /\ ops' = ops + 1
    /\ UNCHANGED <<file, drive, today, history, submitted, probe, shown, race, session>>

\* load_history(), the refresh button
LoadHistory ==
    /\ ops < MaxOps
    /\ shown' = [shown EXCEPT !.history_display = load_history(file)]
    /\ last' = [NoOp EXCEPT !.op = "load_history", !.date = today]
    /\ ops' = ops + 1
    /\ UNCHANGED <<file, drive, after_commit, today, history, submitted, probe, race, session>>

\* the search box shows the text search_history returned
Searched(search_term, text) ==
    /\ shown' = [shown EXCEPT !.history_display = text]
    /\ last' = [NoOp EXCEPT !.op = "search_history", !.date = today,
                            !.search_term = search_term,
                            !.blank = (strip(search_term) = <<>>),
                            !.returned = Some(text)]

\* search_history(search_term), the search box
SearchHistory(search_term) ==
    /\ ops < MaxOps
    /\ Searched(search_term, search_history(file, search_term))
    /\ ops' = ops + 1
    /\ UNCHANGED <<file, drive, after_commit, today, history, submitted, probe, race, session>>

\* the record of a weekly wrap that returned w; the chat-model call's outcome
\* is recorded when the call was made
WeeklyOp(day, chat, w) ==
    [NoOp EXCEPT !.op = "generate_weekly_wrap", !.date = day,
                 !.chat_calls = w.chat_calls,
                 !.generator_calls = 0,
                 !.chat_failed = (w.chat_calls = 1 /\ ~chat.ok),
                 !.error_text = IF w.chat_calls = 1 /\ ~chat.ok THEN chat.text ELSE <<>>,
                 !.ai_response = IF w.chat_calls = 1 /\ chat.ok THEN chat.text ELSE <<>>,
                 !.raised = w.raised,
                 !.returned = Some(w)]

\* generate_weekly_wrap(), the weekly wrap button; utc_today is date('now')
\* at the call and chat the outcome of the chat-model call if it is made
GenerateWeeklyWrap(utc_today, chat) ==
    /\ ops < MaxOps
    /\ last' = WeeklyOp(today, chat, generate_weekly_wrap(file, utc_today, chat))
    /\ ops' = ops + 1
    /\ UNCHANGED <<file, drive, after_commit, today, history, submitted, probe, shown, race, session>>

\* days pass: the next midnight, or a week away from the journal
NextDay(n) ==
    /\ ops < MaxOps
    /\ today + n <= MaxDay + WeekDays
    /\ today' = today + n
    /\ last' = [NoOp EXCEPT !.op = "next_day", !.date = today + n]
    /\ ops' = ops + 1
    /\ UNCHANGED <<file, drive, after_commit, history, submitted, probe, shown, race, session>>

Next ==
    \/ \E message \in Messages, hook_ok \in HookOutcomes(after_commit) :
          \E out \in ModelOutcomes(message) :
              \E chat \in TurnChatOutcomes(message, out) :
                  ChatInterface(message, out, chat, hook_ok)
    \/ \E mood_name \in MoodNames, hook_ok \in HookOutcomes(after_commit) :
          SaveMoodColorHandler(mood_name, hook_ok)
    \/ \E entry_id \in 1..(file.seq + 1), hook_ok \in HookOutcomes(after_commit) :
          DeleteEntry(entry_id, hook_ok)
    \/ \E callback \in {NULL, Some("upload_to_drive")} : SetAfterCommit(callback)
    \/ LoadHistory
    \/ \E search_term \in SearchTerms : SearchHistory(search_term)
    \/ \E utc_today \in UtcDates(today), chat \in WeeklyChatOutcomes :
          GenerateWeeklyWrap(utc_today, chat)
    \/ \E n \in {1, WeekDays} : NextDay(n)

Spec == Init /\ [][Next]_vars

\* ---- two request threads inside save_conversation_message -----------------
\* Gradio runs each handler call in a worker thread; every call opens its own
\* connection.  A call is the SELECT, then the UPDATE or INSERT with its
\* commit, then the callback.
Threads == {1, 2}

ThreadStart ==
    [pc |-> "start", message |-> <<>>, ai_response |-> <<>>, analysis |-> NULL,
     chat |-> NULL, existing |-> NULL, seen |-> 0, entry_id |-> 0, raised |-> NULL,
     out |-> NULL]

\* the files a day's first message or mood color leaves
RaceFiles ==
    { EmptyFile,
      save_conversation_message(EmptyFile, NULL, TRUE, NULL, 1,
          <<"hello">>, <<"hi">>, "positive", 90, <<"health">>).file,
      save_mood_color(EmptyFile, NULL, TRUE, NULL, 1, ColorTag("calm")).file }

InitRace ==
    /\ file \in RaceFiles
    /\ drive = NULL
    /\ after_commit \in {NULL, Some("upload_to_drive")}
    /\ today = 1
    /\ history = <<>>
    /\ ops = 0
    /\ last = NoOp
    /\ submitted = [d \in Days |-> <<>>]
    /\ probe = NoProbe
    /\ shown = Views(EmptyFile, AnalysisPlaceholder)
    /\ race = [th |-> [t \in Threads |-> ThreadStart],
               commits |-> <<>>,
               base |-> ConversationAt(file, 1)]
    /\ session = NoSession

\* the analysis of a message the models answered out for
Analysed(out) ==
    analyze_entry(out.sentiment, theme_classifier(THEMES, out.scores, out.rev))

\* lines 76-87: today, the SELECT of today's row, message_data
Select(t, message, chat) ==
    /\ race.th[t].pc = "start"
    /\ race' = [race EXCEPT !.th[t] =
                    [@ EXCEPT !.pc = "selected",
                              !.message = message,
                              !.ai_response = generate_response(message,
                                                  Analysed(ModelAnswer(message)), chat),
                              !.analysis = Some(Analysed(ModelAnswer(message))),
                              !.chat = Some(chat),
                              !.existing = IF SelectByDate(file, today) = {} THEN NULL
                                           ELSE Some(CHOOSE r \in SelectByDate(file, today) : TRUE),
                              !.seen = Len(race.commits)]]
    /\ UNCHANGED <<file, drive, after_commit, today, history, ops, last, submitted, probe, shown, session>>

\* what the write of thread record th does to the file: the UPDATE by the
\* fetched id, or the INSERT, which the UNIQUE constraint on entry_date
\* rejects (IntegrityError) when the date has a row by now
Written(f, day, th) ==
    IF th.existing # NULL
    THEN AppendToExisting(f, th.existing[1],
             MessageData(th.message, th.ai_response, day))
    ELSE IF SelectByDate(f, day) # {}
    THEN [entries |-> f.entries, seq |-> f.seq, entry_id |-> 0]
    ELSE InsertNew(f, day, MessageData(th.message, th.ai_response, day),
             th.analysis[1].sentiment, th.analysis[1].sentiment_score,
             ThemesList(th.analysis[1].themes))

\* what save_conversation_message gave the turn of thread record th: its
\* return with the file as it is by now, or the exception raised
SaveOutcome(th, f, drv, raised) ==
    [file |-> f, entry_id |-> th.entry_id, existed |-> th.existing # NULL,
     notify |-> [drive |-> drv, hook_calls |-> 0, hook_saw |-> NULL,
                 hook_raised |-> FALSE, raised |-> raised],
     raised |-> raised]

\* the rest of chat_interface in the thread of record th (the chat log it was
\* called with is empty): what the turn hands to the user interface
TurnOutcome(th, f, drv, raised) ==
    Rendered(Turn(f, 1, th.message), <<>>, th.message, th.chat[1], th.analysis[1],
        th.ai_response, SaveOutcome(th, f, drv, raised))

\* the chat log and the texts a turn emitted, and the exception it raised
Emitted(r) == Some([history |-> r.history, views |-> r.views, raised |-> r.last.raised])

\* thread t's write gave w, or the INSERT was rejected: the exception leaves
\* save_conversation_message and chat_interface
Wrote(t, rejected, w) ==
    /\ file' = [entries |-> w.entries, seq |-> w.seq]
    /\ race' = IF rejected
               THEN [race EXCEPT !.th[t].pc = "raised",
                                 !.th[t].raised = Some("IntegrityError"),
                                 !.th[t].out = Emitted(TurnOutcome(race.th[t], file,
                                                  drive, Some("IntegrityError")))]
               ELSE [race EXCEPT !.th[t].pc = "committed",
                                 !.th[t].entry_id = w.entry_id,
                                 !.commits = Append(@, t)]

\* lines 89-113: the UPDATE or INSERT, and conn.commit()
Write(t) ==
    /\ race.th[t].pc = "selected"
    /\ Wrote(t, race.th[t].existing = NULL /\ SelectByDate(file, today) # {},
             Written(file, today, race.th[t]))
    /\ UNCHANGED <<drive, after_commit, today, history, ops, last, submitted, probe, shown, session>>

\* line 114: _notify_after_commit()
Notify(t, hook_ok) ==
    /\ race.th[t].pc = "committed"
    /\ drive' = _notify_after_commit(after_commit, hook_ok, file, drive).drive
    /\ race' = [race EXCEPT !.th[t].pc = "notified"]
    /\ UNCHANGED <<file, after_commit, today, history, ops, last, submitted, probe, shown, session>>

\* lines 115-117 and app.py 373-389: save_conversation_message returns and
\* the turn renders its texts from the file as it is by now
Return(t) ==
    /\ race.th[t].pc = "notified"
    /\ race' = [race EXCEPT !.th[t].pc = "done",
                            !.th[t].out = Emitted(TurnOutcome(race.th[t], file, drive, NULL))]
    /\ UNCHANGED <<file, drive, after_commit, today, history, ops, last, submitted, probe, shown, session>>

NextRace ==
    \/ \E t \in Threads, message \in Messages \ {<<WS>>}, chat \in ChatOutcomes :
          Select(t, message, chat)
    \/ \E t \in Threads : Write(t)
    \/ \E t \in Threads, hook_ok \in HookOutcomes(after_commit) : Notify(t, hook_ok)
    \/ \E t \in Threads : Return(t)

SpecRace == InitRace /\ [][NextRace]_vars

\* ---- search_entries on stored journals and typed terms ---------------------
\* the file after a message of the day was saved
Saved(f, day, message) ==
    save_conversation_message(f, NULL, TRUE, NULL, day, message,
        <<"tell", "me", "more">>, "positive", 90, <<"Health & Wellness">>).file

\* journals of one or two days: messages in either letter case, a message
\* with a literal percent sign, a day with a mood color only
SearchFiles ==
    { EmptyFile,
      Saved(EmptyFile, 1, <<"ran">>),
      Saved(Saved(EmptyFile, 1, <<"RAN">>), 2, <<"boss", "call">>),
      Saved(Saved(EmptyFile, 1, <<"boss", "call">>), 1, <<"50", "%", "off">>),
      save_mood_color(Saved(EmptyFile, 1, <<"call">>), NULL, TRUE, NULL, 2,
          ColorTag("sad")).file }

\* the symbols of a typed term, and the terms of one or two symbols
SearchAlphabet == {"ran", "RAN", "call", "off", "2", "_", "%"}

SearchPatterns ==
    {<<a>> : a \in SearchAlphabet} \cup {<<a, b>> : a, b \in SearchAlphabet}

InitSearch ==
    /\ file \in SearchFiles
    /\ drive = NULL
    /\ after_commit = NULL
    /\ today = 2
    /\ history = <<>>
    /\ ops = 0
    /\ last \in {[NoOp EXCEPT !.search_term = term] : term \in SearchPatterns}
    /\ submitted = [d \in Days |-> <<>>]
    /\ probe = NoProbe
    /\ shown = Views(EmptyFile, AnalysisPlaceholder)
    /\ race = NoRace
    /\ session = NoSession

\* db.search_entries(search_term)
SearchEntries ==
    /\ last.op = "none"
    /\ last' = [last EXCEPT !.op = "search_entries", !.date = today,
                            !.returned = Some(search_entries(file, last.search_term))]
    /\ UNCHANGED <<file, drive, after_commit, today, history, ops, submitted, probe, shown, race, session>>

SpecSearch == InitSearch /\ [][SearchEntries]_vars

\* ---- the analyzer on every answer of the theme model -----------------------
InitAnalyze ==
    /\ file = EmptyFile
    /\ drive = NULL
    /\ after_commit = NULL
    /\ today = 1
    /\ history = <<>>
    /\ ops = 0
    /\ last = NoOp
    /\ submitted = [d \in Days |-> <<>>]
    /\ shown = Views(EmptyFile, AnalysisPlaceholder)
    /\ race = NoRace
    /\ probe \in {[done |-> FALSE, scores |-> sc, rev |-> rv, themes |-> <<>>] :
                     sc \in [DOMAIN THEMES -> ScoreValues], rv \in BOOLEAN}
    /\ session = NoSession

AnalyzeEntry ==
    /\ ~probe.done
    /\ probe' = [probe EXCEPT
                    !.done = TRUE,
                    !.themes = analyze_entry([label |-> "neutral", score |-> 50],
                                   theme_classifier(THEMES, probe.scores, probe.rev)).themes]
    /\ UNCHANGED <<file, drive, after_commit, today, history, ops, last, submitted, shown, race, session>>

SpecAnalyze == InitAnalyze /\ [][AnalyzeEntry]_vars

\* ---- the readers on a stored journal ---------------------------------------
\* A reader opens its connection, runs its SELECT and closes: it commits
\* nothing and does not call _notify_after_commit().
\* faulty variant of ReadOnly: the reader calls the sync callback as the
\* writers do
ReadOnly_Notifies(f, drv, result) ==
    [file |-> f, drive |-> Some(f), hook_calls |-> 1, result |-> result]

\* conn.close() and return of a reader: the file, the remote copy, the
\* calls of the sync callback and the value returned
ReadOnly(f, drv, result) ==
    [file |-> f, drive |-> drv, hook_calls |-> 0, result |-> result]

\* journals of up to three days, a day with a mood color only among them
ReadFiles ==
    { EmptyFile,
      Saved(EmptyFile, 1, <<"ran">>),
      Saved(save_mood_color(Saved(EmptyFile, 1, <<"ran">>), NULL, TRUE, NULL, 2,
                ColorTag("sad")).file, 3, <<"boss", "call">>),
      save_mood_color(Saved(Saved(EmptyFile, 1, <<"ran">>), 2, <<"boss", "call">>),
          NULL, TRUE, NULL, 3, ColorTag("calm")).file }

\* the limits get_all_entries is called with: small ones, load_history's 50
\* and the default 100
ReadLimits == {1, 2, HistoryLimit, 100}

InitRead ==
    /\ file \in ReadFiles
    /\ drive = NULL
    /\ after_commit \in {NULL, Some("upload_to_drive")}
    /\ today = 3
    /\ history = <<>>
    /\ ops = 0
    /\ last = NoOp
    /\ submitted = [d \in Days |-> <<>>]
    /\ probe = NoProbe
    /\ shown = Views(EmptyFile, AnalysisPlaceholder)
    /\ race = NoRace
    /\ session = NoSession

\* a reader called for date d (and limit n) returned r
ReadDone(op, d, n, r) ==
    /\ ops < MaxReads
    /\ file' = r.file
    /\ drive' = r.drive
    /\ last' = [NoOp EXCEPT !.op = op, !.date = d, !.limit = n,
                            !.hook_calls = r.hook_calls,
                            !.returned = Some(r.result)]
    /\ ops' = ops + 1
    /\ UNCHANGED <<after_commit, today, history, submitted, probe, shown, race, session>>

GetAllEntries(limit) ==
    ReadDone("get_all_entries", today, limit,
        ReadOnly(file, drive, get_all_entries(file, limit)))

GetEntryByDate(entry_date) ==
    ReadDone("get_entry_by_date", entry_date, 0,
        ReadOnly(file, drive, get_entry_by_date(file, entry_date)))

GetStats ==
    ReadDone("get_stats", today, 0, ReadOnly(file, drive, get_stats(file)))

GetMoodColorForToday ==
    ReadDone("get_mood_color_for_today", today, 0,
        ReadOnly(file, drive, get_mood_color_for_today(file, today)))

ReadSearchEntries(search_term) ==
    ReadDone("search_entries", today, 0,
        ReadOnly(file, drive, search_entries(file, search_term)))

GetWeeklyEntries(utc_today) ==
    ReadDone("get_weekly_entries", today, 0,
        ReadOnly(file, drive, get_weekly_entries(file, utc_today)))

NextRead ==
    \/ \E limit \in ReadLimits : GetAllEntries(limit)
    \/ \E entry_date \in 1..today : GetEntryByDate(entry_date)
    \/ GetStats
    \/ GetMoodColorForToday
    \/ \E search_term \in SearchTerms : ReadSearchEntries(search_term)
    \/ \E utc_today \in UtcDates(today) : GetWeeklyEntries(utc_today)

SpecRead == InitRead /\ [][NextRead]_vars

\* ---- sessions (app.py login_callback, logout_user; drive_storage.py) -------
\* The files on disk are a function from paths to database files: path 0 is
\* _default_db_path, the paths 1, 2, ... are the temp files tempfile.mkstemp
\* makes, one per login.  The user's Drive holds the folders named
\* APP_FOLDER_NAME and the files named DB_FILENAME, a file being
\* [id, parent, content].
DefaultDbPath == 0

EmptyRemote == [folders |-> {}, files |-> {}, seq |-> 0]

\* _find_or_create_app_folder(service): the folder found (files[0]) or made
_find_or_create_app_folder(remote) ==
    IF remote.folders # {}
    THEN [remote |-> remote, folder_id |-> CHOOSE g \in remote.folders : TRUE]
    ELSE [remote |-> [remote EXCEPT !.folders = {remote.seq + 1}, !.seq = remote.seq + 1],
          folder_id |-> remote.seq + 1]

\* _find_db_file_in_folder(service, folder_id): files[0]["id"] or None
_find_db_file_in_folder(remote, folder_id) ==
    IF {f \in remote.files : f.parent = folder_id} = {} THEN NULL
    ELSE Some((CHOOSE f \in remote.files : f.parent = folder_id).id)

\* the new temp file of tempfile.mkstemp, holding content
MkTemp(disk, content) ==
    [p \in DOMAIN disk \cup {Cardinality(DOMAIN disk)} |->
        IF p \in DOMAIN disk THEN disk[p] ELSE content]

\* the download of the file found, or the empty file local_path.touch() makes
Downloaded(remote, file_id) ==
    IF file_id = NULL THEN EmptyFile
    ELSE (CHOOSE f \in remote.files : f.id = file_id[1]).content

\* get_or_create_db_file(creds) once the folder is there (a): the disk with
\* the new temp file, the Drive, local_path and the upload_to_drive closure
FileOfFolder(disk, a) ==
    [disk |-> MkTemp(disk, Downloaded(a.remote, _find_db_file_in_folder(a.remote, a.folder_id))),
     remote |-> a.remote,
     local_path |-> Cardinality(DOMAIN disk),
     upload_cb |-> [local_path |-> Cardinality(DOMAIN disk), folder_id |-> a.folder_id]]

\* get_or_create_db_file(creds)
get_or_create_db_file(disk, remote) ==
    FileOfFolder(disk, _find_or_create_app_folder(remote))

\* faulty variant of upload_to_drive: every call creates a new remote file
upload_to_drive_AlwaysCreates(cb, disk, remote) ==
    IF cb.local_path \notin DOMAIN disk THEN remote
    ELSE [remote EXCEPT !.files = remote.files \cup
                            {[id |-> remote.seq + 1, parent |-> cb.folder_id,
                              content |-> disk[cb.local_path]]},
                        !.seq = remote.seq + 1]

\* upload_to_drive(), the closure cb = (local_path, folder_id): the whole
\* local file replaces the content of the remote file, which is created when
\* the folder has none
upload_to_drive(cb, disk, remote) ==
    IF cb.local_path \notin DOMAIN disk THEN remote
    ELSE IF _find_db_file_in_folder(remote, cb.folder_id) # NULL
    THEN [remote EXCEPT !.files =
              {IF f.id = _find_db_file_in_folder(remote, cb.folder_id)[1]
               THEN [f EXCEPT !.content = disk[cb.local_path]]
               ELSE f : f \in remote.files}]
    ELSE [remote EXCEPT !.files = remote.files \cup
                            {[id |-> remote.seq + 1, parent |-> cb.folder_id,
                              content |-> disk[cb.local_path]]},
                        !.seq = remote.seq + 1]

\* the session state of a fresh process: _db_path is the default path, no
\* user; logged_out tells that logout_user ran and no login came after it
FreshSession ==
    [db_path |-> DefaultDbPath,
     current_user |-> [email |-> NULL, upload_cb |-> NULL],
     disk |-> [p \in {DefaultDbPath} |-> EmptyFile],
     remote |-> EmptyRemote,
     logged_out |-> FALSE]

\* drive_storage.get_user_email(creds)
UserEmail == "user@example.com"

\* where login_callback can fail: the code exchange, the Drive calls of
\* get_or_create_db_file, init_database on the downloaded file
LoginOutcomes ==
    {"ok", "exchange_code_for_credentials", "get_or_create_db_file", "init_database"}

\* login_callback from db.set_db_path on, g being what get_or_create_db_file
\* returned: the session state and database._after_commit
LoggedIn(s, g, outcome) ==
    [session |->
         [s EXCEPT !.db_path = g.local_path,
                   !.disk = g.disk,
                   !.remote = g.remote,
                   !.logged_out = FALSE,
                   !.current_user =
                       IF outcome = "init_database" THEN s.current_user
                       ELSE [email |-> Some(UserEmail), upload_cb |-> Some(g.upload_cb)]],
     after_commit |-> Some(g.upload_cb)]

\* login_callback(code); outcome names the call that raises, if any.  The
\* except clause prints the error; nothing is undone.
login_callback(s, hook, code, outcome) ==
    IF code = NULL \/ outcome \in {"exchange_code_for_credentials", "get_or_create_db_file"}
    THEN [session |-> s, after_commit |-> hook]
    ELSE LoggedIn(s, get_or_create_db_file(s.disk, s.remote), outcome)

\* faulty variant of logout_user: db.set_after_commit(None) is missing
logout_user_KeepsCallback(s, hook) ==
    [session |-> [s EXCEPT !.current_user = [email |-> NULL, upload_cb |-> NULL],
                           !.db_path = DefaultDbPath,
                           !.logged_out = TRUE],
     after_commit |-> hook]

\* logout_user()
logout_user(s, hook) ==
    [session |-> [s EXCEPT !.current_user = [email |-> NULL, upload_cb |-> NULL],
                           !.db_path = DefaultDbPath,
                           !.logged_out = TRUE],
     after_commit |-> NULL]

\* _notify_after_commit() with the Drive behind the callback: the registered
\* closure is called; when it raises the Drive is as before
NotifyDrive(hook, hook_ok, disk, remote) ==
    IF hook # NULL /\ hook_ok THEN upload_to_drive(hook[1], disk, remote) ELSE remote

\* the writers a session is exercised with: a mood color, a saved message
SessionWrites == {"save_mood_color", "save_conversation_message"}

\* the database file f after writer w ran on it on date day
WrittenBy(w, f, day) ==
    IF w = "save_mood_color"
    THEN save_mood_color(f, NULL, TRUE, NULL, day, ColorTag("calm")).file
    ELSE Saved(f, day, <<"ran">>)

InitSession ==
    /\ file = EmptyFile
    /\ drive = NULL
    /\ after_commit = NULL
    /\ today = 1
    /\ history = <<>>
    /\ ops = 0
    /\ last = NoOp
    /\ submitted = [d \in Days |-> <<>>]
    /\ probe = NoProbe
    /\ shown = Views(EmptyFile, AnalysisPlaceholder)
    /\ race = NoRace
    /\ session = FreshSession

\* a handler of the session layer returned r
SessionDone(op, outcome, r) ==
    /\ ops < MaxOps
    /\ session' = r.session
    /\ after_commit' = r.after_commit
    /\ last' = [NoOp EXCEPT !.op = op, !.date = today, !.returned = Some(outcome)]
    /\ ops' = ops + 1
    /\ UNCHANGED <<file, drive, today, history, submitted, probe, shown, race>>

\* GET /login/callback
LoginCallback(code, outcome) ==
    SessionDone("login_callback", [code |-> code, outcome |-> outcome],
        login_callback(session, after_commit, code, outcome))

\* the Logout button, shown while a user is logged in
LogoutUser ==
    /\ session.current_user.email # NULL
    /\ SessionDone("logout_user", [code |-> NULL, outcome |-> "ok"],
           logout_user(session, after_commit))

\* a writer on the active path: the write on the file at _db_path, the
\* commit, and _notify_after_commit()
SessionWrite(w, hook_ok) ==
    /\ ops < MaxOps
    /\ session' =
           [session EXCEPT
               !.disk = [session.disk EXCEPT ![session.db_path] = WrittenBy(w, @, today)],
               !.remote = NotifyDrive(after_commit, hook_ok,
                              [session.disk EXCEPT ![session.db_path] = WrittenBy(w, @, today)],
                              session.remote)]
    /\ last' = [NoOp EXCEPT !.op = w, !.date = today, !.store_calls = 1,
                            !.hook_calls = IF after_commit = NULL THEN 0 ELSE 1,
                            !.hook_raised = (after_commit # NULL /\ ~hook_ok),
                            !.returned = Some([path |-> session.db_path,
                                               hook |-> after_commit])]
    /\ ops' = ops + 1
    /\ UNCHANGED <<file, drive, after_commit, today, history, submitted, probe, shown, race>>

NextSession ==
    \/ \E code \in {NULL, Some("4/0Ab")}, outcome \in LoginOutcomes :
          LoginCallback(code, outcome)
    \/ LogoutUser
    \/ \E w \in SessionWrites, hook_ok \in HookOutcomes(after_commit) :
          SessionWrite(w, hook_ok)

SpecSession == InitSession /\ [][NextSession]_vars

\* ---- a turn's write while login_callback or logout_user runs -----------------
\* FastAPI serves /login/callback and Gradio its handlers in worker threads.
\* The writer reads database._db_path when it connects and
\* database._after_commit when it notifies; login_callback and logout_user
\* assign the two one after the other.
\* the session after a login that succeeded, and its callback
Established == login_callback(FreshSession, NULL, Some("4/0Ab"), "ok")

\* the turn's thread before chat_interface is called
WriterStart ==
    [pc |-> "idle", w |-> "none", path_at_start |-> DefaultDbPath, hook_at_start |-> NULL,
     conn_path |-> DefaultDbPath, hook_called |-> NULL]

\* the other thread: a login or a logout that is about to run
SwitchStart(op) == [op |-> op, pc |-> "start", g |-> NULL]

InitSwitch ==
    /\ file = EmptyFile
    /\ drive = NULL
    /\ today = 1
    /\ history = <<>>
    /\ ops = 0
    /\ last = NoOp
    /\ submitted = [d \in Days |-> <<>>]
    /\ probe = NoProbe
    /\ shown = Views(EmptyFile, AnalysisPlaceholder)
    /\ \/ /\ session = FreshSession
          /\ after_commit = NULL
          /\ race = [writer |-> WriterStart, switch |-> SwitchStart("login_callback")]
       \/ /\ session = Established.session
          /\ after_commit = Established.after_commit
          /\ race \in {[writer |-> WriterStart, switch |-> SwitchStart(op)] :
                          op \in {"login_callback", "logout_user"}}

\* app.py 352: chat_interface (or save_mood_color_handler) is called
TurnStart(w) ==
    /\ race.writer.pc = "idle"
    /\ race' = [race EXCEPT !.writer =
                    [@ EXCEPT !.pc = "started", !.w = w,
                              !.path_at_start = session.db_path,
                              !.hook_at_start = after_commit]]
    /\ UNCHANGED <<file, drive, after_commit, today, history, ops, last, submitted, probe, shown, session>>

\* database.py 72: conn = sqlite3.connect(_get_db_path())
Connect ==
    /\ race.writer.pc = "started"
    /\ race' = [race EXCEPT !.writer.pc = "connected",
                            !.writer.conn_path = session.db_path]
    /\ UNCHANGED <<file, drive, after_commit, today, history, ops, last, submitted, probe, shown, session>>

\* database.py 76-113: the SELECT, the UPDATE or INSERT and conn.commit() on
\* the file the connection was opened on
Commit ==
    /\ race.writer.pc = "connected"
    /\ session' = [session EXCEPT !.disk[race.writer.conn_path] =
                       WrittenBy(race.writer.w, @, today)]
    /\ race' = [race EXCEPT !.writer.pc = "committed"]
    /\ UNCHANGED <<file, drive, after_commit, today, history, ops, last, submitted, probe, shown>>

\* database.py 114: _notify_after_commit() calls what _after_commit is now
NotifyAfterCommit(hook_ok) ==
    /\ race.writer.pc = "committed"
    /\ session' = [session EXCEPT !.remote =
                       NotifyDrive(after_commit, hook_ok, session.disk, session.remote)]
    /\ race' = [race EXCEPT !.writer.pc = "done",
                            !.writer.hook_called = after_commit]
    /\ UNCHANGED <<file, drive, after_commit, today, history, ops, last, submitted, probe, shown>>

\* app.py 1835-1837: the code exchange and get_or_create_db_file
LoginFetch(g) ==
    /\ race.switch.op = "login_callback"
    /\ race.switch.pc = "start"
    /\ session' = [session EXCEPT !.disk = g.disk, !.remote = g.remote]
    /\ race' = [race EXCEPT !.switch.pc = "fetched", !.switch.g = Some(g)]
    /\ UNCHANGED <<file, drive, after_commit, today, history, ops, last, submitted, probe, shown>>

\* app.py 1838: db.set_db_path(local_path)
LoginSetDbPath ==
    /\ race.switch.op = "login_callback"
    /\ race.switch.pc = "fetched"
    /\ session' = [session EXCEPT !.db_path = race.switch.g[1].local_path]
    /\ race' = [race EXCEPT !.switch.pc = "path set"]
    /\ UNCHANGED <<file, drive, after_commit, today, history, ops, last, submitted, probe, shown>>

\* app.py 1839: db.set_after_commit(upload_cb)
LoginSetAfterCommit ==
    /\ race.switch.op = "login_callback"
    /\ race.switch.pc = "path set"
    /\ after_commit' = Some(race.switch.g[1].upload_cb)
    /\ race' = [race EXCEPT !.switch.pc = "hook set"]
    /\ UNCHANGED <<file, drive, today, history, ops, last, submitted, probe, shown, session>>

\* app.py 1840-1842: db.init_database(), then _current_user
LoginSetUser ==
    /\ race.switch.op = "login_callback"
    /\ race.switch.pc = "hook set"
    /\ session' = [session EXCEPT !.current_user =
                       [email |-> Some(UserEmail),
                        upload_cb |-> Some(race.switch.g[1].upload_cb)]]
    /\ race' = [race EXCEPT !.switch.pc = "done"]
    /\ UNCHANGED <<file, drive, after_commit, today, history, ops, last, submitted, probe, shown>>

\* app.py 53-54: _current_user is cleared
LogoutClearUser ==
    /\ race.switch.op = "logout_user"
    /\ race.switch.pc = "start"
    /\ session' = [session EXCEPT !.current_user = [email |-> NULL, upload_cb |-> NULL]]
    /\ race' = [race EXCEPT !.switch.pc = "user cleared"]
    /\ UNCHANGED <<file, drive, after_commit, today, history, ops, last, submitted, probe, shown>>

\* app.py 55: db.set_db_path(None)
LogoutSetDbPath ==
    /\ race.switch.op = "logout_user"
    /\ race.switch.pc = "user cleared"
    /\ session' = [session EXCEPT !.db_path = DefaultDbPath, !.logged_out = TRUE]
    /\ race' = [race EXCEPT !.switch.pc = "path set"]
    /\ UNCHANGED <<file, drive, after_commit, today, history, ops, last, submitted, probe, shown>>

\* app.py 56: db.set_after_commit(None)
LogoutSetAfterCommit ==
    /\ race.switch.op = "logout_user"
    /\ race.switch.pc = "path set"
    /\ after_commit' = NULL
    /\ race' = [race EXCEPT !.switch.pc = "done"]
    /\ UNCHANGED <<file, drive, today, history, ops, last, submitted, probe, shown, session>>

NextSwitch ==
    \/ \E w \in SessionWrites : TurnStart(w)
    \/ Connect
    \/ Commit
    \/ \E hook_ok \in HookOutcomes(after_commit) : NotifyAfterCommit(hook_ok)
    \/ LoginFetch(get_or_create_db_file(session.disk, session.remote))
    \/ LoginSetDbPath
    \/ LoginSetAfterCommit
    \/ LoginSetUser
    \/ LogoutClearUser
    \/ LogoutSetDbPath
    \/ LogoutSetAfterCommit

SpecSwitch == InitSwitch /\ [][NextSwitch]_vars

\* ==== properties ============================================================
\* the stored row of date d (there is one)
RowOf(d) == CHOOSE r \in SelectByDate(file, d) : TRUE

\* the conversation of date d as getEntry returns it, <<>> when there is no row
ConversationOf(f, d) ==
    IF get_entry_by_date(f, d) = NULL THEN <<>>
    ELSE get_entry_by_date(f, d)[1].conversation

\* the (id, date) pairs of the stored rows
Keys(f) == {<<r.id, r.entry_date>> : r \in f.entries}

\* C1: after N >= 1 non-empty messages were submitted on one date (mood
\* colors possibly set in between, the date's row not deleted), the entry of
\* that date exists and its conversation has exactly N elements whose user
\* texts are the submitted messages in submission order.
C1_ConversationIsSubmittedInOrder ==
    \A d \in Days :
        submitted[d] # <<>> =>
            /\ get_entry_by_date(file, d) # NULL
            /\ Len(ConversationOf(file, d)) = Len(submitted[d])
            /\ \A k \in 1..Len(submitted[d]) :
                   ConversationOf(file, d)[k].user = submitted[d][k]

\* two different messages and a mood color on one date
C1_Witness ==
    \E d \in Days :
        /\ Len(submitted[d]) >= 2
        /\ submitted[d][1] # submitted[d][2]
        /\ SelectByDate(file, d) # {}
        /\ RowOf(d).mood_color # NULL

\* C2 (as claimed): after an appendMessage on a date that already has a row,
\* the row's sentiment label, sentiment score and themes are those passed in
\* that call.
C2_LatestAnalysisOverwrites ==
    (last.op = "chat_interface" /\ last.store_calls = 1 /\ last.existed) =>
        /\ RowOf(last.date).overall_sentiment = last.sentiment
        /\ RowOf(last.date).sentiment_score = last.sentiment_score
        /\ Some(json_loads_themes(RowOf(last.date).themes)) = last.themes

\* C3: no two stored rows share a date, and a write (appendMessage or
\* setMoodColor) on a date that already has a row leaves the set of rows'
\* (id, date) pairs as it was: the row is changed in place, none is inserted.
C3_OneRowPerDate ==
    [][ /\ \A r, q \in file'.entries : r.entry_date = q.entry_date => r = q
        /\ (/\ last'.op \in {"chat_interface", "save_mood_color"}
            /\ last'.store_calls = 1
            /\ last'.existed)
           => /\ Keys(file') = Keys(file)
              /\ Cardinality(file'.entries) = Cardinality(file.entries) ]_vars

\* a write on an existing row while another date has a row too
C3_Witness ==
    /\ last.op \in {"chat_interface", "save_mood_color"}
    /\ last.store_calls = 1
    /\ last.existed
    /\ Cardinality(file.entries) = 2

\* C4: a row that setMoodColor created and that received no message has the
\* empty conversation, adds nothing to stats().total_entries, is not
\* stats().last_entry and is not returned by the 7-day-with-content query.
C4_MoodOnlyRowHasNoContent ==
    \A d \in Days :
        (SelectByDate(file, d) # {} /\ submitted[d] = <<>>) =>
            /\ RowOf(d).mood_color # NULL
            /\ ConversationOf(file, d) = <<>>
            /\ get_stats(file).total_entries =
                   Cardinality({e \in Days : submitted[e] # <<>>})
            /\ get_stats(file).last_entry # Some(d)
            /\ \A u \in UtcDates(today) :
                   \A k \in DOMAIN get_weekly_entries(file, u) :
                       get_weekly_entries(file, u)[k].entry_date # d

\* setMoodColor has just created a row, beside a row with messages
C4_Witness ==
    /\ last.op = "save_mood_color"
    /\ ~last.existed
    /\ submitted[last.date] = <<>>
    /\ get_stats(file).total_entries = 1
    /\ Cardinality(file.entries) = 2

\* C5: setMoodColor on a date that already has a row changes only that row's
\* mood_color: its id, date, conversation, sentiment label, sentiment score
\* and themes stay, and so does every row of another date.
C5_MoodColorTouchesOnlyMoodColor ==
    [][ (last'.op = "save_mood_color" /\ last'.existed) =>
          /\ Cardinality(file'.entries) = Cardinality(file.entries)
          /\ \A r \in file.entries :
                 IF r.entry_date = today
                 THEN [r EXCEPT !.mood_color = last'.color] \in file'.entries
                 ELSE r \in file'.entries ]_vars

\* a mood color set on a row that has messages, beside a row of another date
C5_Witness ==
    /\ last.op = "save_mood_color"
    /\ last.existed
    /\ submitted[last.date] # <<>>
    /\ RowOf(last.date).overall_sentiment # NULL
    /\ Cardinality(file.entries) = 2

\* the labels whose score the theme model put above the threshold
Above(scores) == {i \in DOMAIN THEMES : scores[i] > ThemeThreshold}

Min(a, b) == IF a < b THEN a ELSE b

C6_WitnessEmpty ==
    /\ probe.done
    /\ Above(probe.scores) = {}
    /\ probe.themes = <<>>

\* C7: a turn whose chat-model call fails does not raise: the reply is a
\* non-empty string containing the error text, and today's conversation is
\* the one before the turn followed by exactly one element holding the user
\* text, that reply and the timestamp.
C7_FailedGenerationStillPersists ==
    [][ (last'.op = "chat_interface" /\ last'.chat_failed) =>
          /\ last'.raised = NULL
          /\ last'.ai_response # <<>>
          /\ Contains(last'.ai_response, last'.error_text)
          /\ last'.store_calls = 1
          /\ ConversationOf(file', today) =
                 Append(ConversationOf(file, today),
                        [user |-> last'.message, luna |-> last'.ai_response,
                         timestamp |-> isoformat(today)]) ]_vars

\* a failed generation on a date that already has a conversation
C7_Witness ==
    /\ last.op = "chat_interface"
    /\ last.chat_failed
    /\ last.error_text # <<>>
    /\ last.existed
    /\ Len(ConversationOf(file, last.date)) >= 2

\* C8: a turn whose analyzer fails raises to its caller and changes nothing:
\* the store and its remote copy are as before, the generator, the store and
\* the sync hook are not called, and the chat log gets no reply.
C8_AnalyzerFailureAbortsTurn ==
    [][ (last'.op = "chat_interface" /\ last'.analyzer_failed) =>
          /\ last'.raised = Some("analyze_entry")
          /\ file' = file
          /\ drive' = drive
          /\ history' = history
          /\ last'.generator_calls = 0
          /\ last'.store_calls = 0
          /\ last'.hook_calls = 0 ]_vars

\* the analyzer failed with a hook registered and a conversation under way
C8_Witness ==
    /\ last.op = "chat_interface"
    /\ last.analyzer_failed
    /\ after_commit # NULL
    /\ last.existed
    /\ history # <<>>

\* C9: every appendMessage, setMoodColor and deleteEntry that ran with a hook
\* registered called it exactly once, after the commit: the file the hook saw
\* is the file with the write in it; with no hook registered the operation
\* returns as well and calls nothing.
C9_HookOnceAfterCommit ==
    last.store_calls = 1 =>
        /\ last.raised = NULL
        /\ IF after_commit # NULL
           THEN /\ last.hook_calls = 1
                /\ last.hook_saw = Some(file)
           ELSE /\ last.hook_calls = 0
                /\ last.hook_saw = NULL
        /\ last.op = "chat_interface" =>
               /\ ConversationOf(file, last.date) # <<>>
               /\ ConversationOf(file, last.date)[Len(ConversationOf(file, last.date))].user
                      = last.message
        /\ last.op = "save_mood_color" => RowOf(last.date).mood_color = last.color
        /\ last.op = "delete_entry" => \A r \in file.entries : r.id # last.entry_id

\* the hook saw a deletion that removed a row
C9_Witness ==
    /\ last.op = "delete_entry"
    /\ last.existed
    /\ last.hook_calls = 1
    /\ last.hook_saw = Some(file)

\* C10: when the sync hook raises in appendMessage, setMoodColor or
\* deleteEntry, nothing is raised to the caller, the operation gives its
\* normal result and the local store holds the committed write, the same as
\* when the hook returns.
C10_HookFailureIsSwallowed ==
    [][ last'.hook_raised =>
          /\ last'.raised = NULL
          /\ last'.hook_saw = Some(file')
          /\ last'.op = "chat_interface" =>
                 /\ file' = save_conversation_message(file, after_commit, TRUE, drive,
                                today, last'.message, last'.ai_response,
                                last'.sentiment[1], last'.sentiment_score[1],
                                last'.themes[1]).file
                 /\ last'.entry_id = RowOf(today)'.id
                 /\ Len(history') = Len(history) + 2
                 /\ history'[Len(history')].content = last'.ai_response
          /\ last'.op = "save_mood_color" =>
                 file' = save_mood_color(file, after_commit, TRUE, drive, today,
                                         last'.color[1]).file
          /\ last'.op = "delete_entry" =>
                 file' = delete_entry(file, after_commit, TRUE, drive,
                                      last'.entry_id).file ]_vars

\* the hook raised while a message was appended to an existing row
C10_Witness ==
    /\ last.op = "chat_interface"
    /\ last.hook_raised
    /\ last.existed
    /\ drive # Some(file)

\* C11 as claimed: a turn on a blank message changes nothing, calls nothing,
\* and every text it emits (chat log, analysis, history, both statistics) is
\* the text that was on display before.
C11_BlankTurnKeepsEveryView ==
    [][ (last'.op = "chat_interface" /\ strip(last'.message) = <<>>) =>
          /\ file' = file
          /\ last'.analyzer_calls = 0
          /\ last'.generator_calls = 0
          /\ last'.hook_calls = 0
          /\ history' = history
          /\ shown' = shown ]_vars

\* C11, amended: a turn on a blank message leaves the store and the remote
\* copy unchanged and calls neither the analyzer, the generator, the store nor
\* the sync hook; it returns the chat log unchanged, the empty string for the
\* analysis panel, and the history and both statistics texts rendered afresh
\* from the unchanged store.
C11_BlankTurnClearsAnalysisAndRefreshes ==
    [][ (last'.op = "chat_interface" /\ strip(last'.message) = <<>>) =>
          /\ file' = file
          /\ drive' = drive
          /\ last'.analyzer_calls = 0
          /\ last'.generator_calls = 0
          /\ last'.store_calls = 0
          /\ last'.hook_calls = 0
          /\ history' = history
          /\ shown'.analysis_display = EmptyText
          /\ shown'.history_display = HistoryOf(get_all_entries(file, HistoryLimit))
          /\ shown'.stats_bar_display = StatsBarOf(get_stats(file))
          /\ shown'.stats_sidebar_display = StatsSidebarOf(get_stats(file)) ]_vars

\* a blank turn after a turn that was saved and whose analysis was on display
C11_Witness ==
    /\ last.op = "chat_interface"
    /\ strip(last.message) = <<>>
    /\ last.blank
    /\ history # <<>>
    /\ file.entries # {}
    /\ shown.analysis_display = EmptyText

\* the message thread t hands to the store
MessageOf(t) == MessageData(race.th[t].message, race.th[t].ai_response, today)

\* both threads found the date's row and committed their UPDATE
BothAppended ==
    /\ \A t \in Threads : race.th[t].pc \in {"committed", "notified", "done"}
    /\ \A t \in Threads : race.th[t].existing # NULL

\* C12: two calls of appendMessage on an existing row of one date are last
\* write wins: once both have committed, the stored conversation is what the
\* later writer read plus its own message, so the earlier writer's message is
\* in it only if the later writer read after the earlier one committed;
\* otherwise the conversation holds one of the two messages and the other is
\* lost.
C12_LastWriteWins ==
    BothAppended =>
        ConversationAt(file, today) =
            IF race.th[race.commits[2]].seen = 1
            THEN race.base \o <<MessageOf(race.commits[1]), MessageOf(race.commits[2])>>
            ELSE race.base \o <<MessageOf(race.commits[2])>>

\* both calls returned and the first writer's message is not stored
C12_Witness ==
    /\ BothAppended
    /\ \A t \in Threads : race.th[t].pc = "done"
    /\ race.base # <<>>
    /\ race.th[1].message # race.th[2].message
    /\ Len(ConversationAt(file, today)) = Len(race.base) + 1
    /\ \A k \in DOMAIN ConversationAt(file, today) :
           ConversationAt(file, today)[k].user # race.th[race.commits[1]].message
    /\ \E k \in DOMAIN ConversationAt(file, today) :
           ConversationAt(file, today)[k].user = race.th[race.commits[2]].message

\* a is an initial part of b
IsPrefix(a, b) == Len(a) <= Len(b) /\ SubSeq(b, 1, Len(a)) = a

\* C13: within one date the conversation only grows: every step leaves each
\* stored row in place with its conversation an initial part of the new one,
\* unless the step is deleteEntry of that row's id, after which getEntry of
\* the date returns absent.
C13_ConversationOnlyGrows ==
    [][ \A d \in Days :
          SelectByDate(file, d) # {} =>
            \/ /\ SelectByDate(file', d) # {}
               /\ IsPrefix(ConversationAt(file, d), ConversationAt(file', d))
            \/ /\ last'.op = "delete_entry"
               /\ last'.entry_id = RowOf(d).id
               /\ get_entry_by_date(file', d) = NULL ]_vars

\* the day count in the heading of a history text, 0 for "No entries yet"
HistoryDays(text) == IF "days" \in DOMAIN text THEN text.days ELSE 0

\* the entries listed in a history text
HistoryEntries(text) == IF "entries" \in DOMAIN text THEN text.entries ELSE <<>>

\* C14: the history view load_history produces leaves out the rows that hold
\* only a mood color: every listed day has at least one conversation element
\* and the day count of the heading is the number of days with messages.
C14_HistoryExcludesMoodOnlyRows ==
    last.op = "load_history" =>
        /\ \A k \in DOMAIN HistoryEntries(shown.history_display) :
               HistoryEntries(shown.history_display)[k].message_count >= 1
        /\ HistoryDays(shown.history_display) =
               Cardinality({d \in Days : submitted[d] # <<>>})

\* the dates of the entries a search returned, in the order returned
ReturnedDates == [k \in DOMAIN last.returned[1] |-> last.returned[1][k].entry_date]

\* dates is the set of dates wanted, listed by date descending
ListsDescending(dates, wanted) ==
    /\ {dates[k] : k \in DOMAIN dates} = wanted
    /\ \A j, k \in DOMAIN dates : j < k => dates[j] > dates[k]

\* C15 as claimed: search(term) returns exactly the entries whose date or
\* serialized conversation contains term as a case-sensitive literal
\* substring, by date descending.
C15_SearchIsCaseSensitiveLiteral ==
    last.op = "search_entries" =>
        ListsDescending(ReturnedDates,
            {r.entry_date : r \in {q \in file.entries :
                \/ Contains(isoformat(q.entry_date), last.search_term)
                \/ Contains(q.conversation, last.search_term)}})

\* g places the symbols of term in text: a symbol other than '%' sits on a
\* symbol of text that it equals up to letter case ('_' on any symbol),
\* directly after its predecessor, or anywhere after it when the predecessor
\* is '%'; a '%' sits where its predecessor sits or further on.
Places(g, term, text) ==
    \A k \in DOMAIN term :
        /\ term[k] # "%" =>
              /\ g[k] >= 1
              /\ term[k] = "_" \/ FoldCase(term[k]) = FoldCase(text[g[k]])
        /\ (k > 1 /\ term[k] # "%" /\ term[k - 1] # "%") => g[k] = g[k - 1] + 1
        /\ (k > 1 /\ term[k] # "%" /\ term[k - 1] = "%") => g[k] > g[k - 1]
        /\ (k > 1 /\ term[k] = "%") => g[k] >= g[k - 1]

\* text holds term read as a fragment of a LIKE pattern
HoldsPattern(text, term) ==
    \E g \in [DOMAIN term -> 0..Len(text)] : Places(g, term, text)

\* C15, amended: search(term) returns exactly the entries whose date or
\* serialized conversation holds term read as a fragment of an SQL LIKE
\* pattern, by date descending: letters match without regard to case, '_'
\* in term matches any one symbol and '%' any run of symbols.  An entry that
\* has the term only in another letter case, or only through a wildcard of
\* the term, is returned.
C15_SearchIsLikePattern ==
    last.op = "search_entries" =>
        ListsDescending(ReturnedDates,
            {r.entry_date : r \in {q \in file.entries :
                \/ HoldsPattern(isoformat(q.entry_date), last.search_term)
                \/ HoldsPattern(q.conversation, last.search_term)}})

\* a search returned an entry that does not hold the term literally: it has
\* it in another letter case or through a wildcard
C15_Witness ==
    /\ last.op = "search_entries"
    /\ last.returned # Some(<<>>)
    /\ \A q \in file.entries :
           /\ ~Contains(isoformat(q.entry_date), last.search_term)
           /\ ~Contains(q.conversation, last.search_term)

\* the dates of the entries the weekly query returned, as the prompt of the
\* weekly wrap lists them
WeekDates == [k \in DOMAIN last.returned[1].prompt |-> last.returned[1].prompt[k].date]

\* the stored rows with messages dated on or after day minus 7 days
SinceWeekBefore(day) ==
    {r \in file.entries :
        /\ r.entry_date >= day - WeekDays
        /\ ConversationAt(file, r.entry_date) # <<>>}

\* C16: getLastNDaysWithContent(7) returns exactly the stored entries with a
\* non-empty conversation whose date is on or after today minus 7 days, by
\* date descending, today being the date appendMessage and setMoodColor key
\* the row with.
C16_WeekCountsFromRowKeyDate ==
    last.op = "generate_weekly_wrap" =>
        WeekDates = [k \in DOMAIN OrderByDateDesc(SinceWeekBefore(today)) |->
                        isoformat(OrderByDateDesc(SinceWeekBefore(today))[k].entry_date)]

\* the markers of the bracket placeholders in the weekly prompt
PromptMarkers == {"[List", "[A short"}

\* the weekly query at UTC date u gave the dates the weekly wrap worked on
QueriedAt(u) ==
    WeekDates = [k \in DOMAIN OrderByDateDesc(SinceWeekBefore(u)) |->
                    isoformat(OrderByDateDesc(SinceWeekBefore(u))[k].entry_date)]

\* the day range and day count of a set of rows
RangeOf(rows) ==
    [from |-> isoformat(CHOOSE d \in {r.entry_date : r \in rows} :
                            \A r \in rows : d <= r.entry_date),
     to |-> isoformat(CHOOSE d \in {r.entry_date : r \in rows} :
                          \A r \in rows : d >= r.entry_date),
     days |-> Cardinality(rows)]

\* C17: when the 7-day-with-content query is empty the weekly summarizer
\* returns the fixed "no entries" text and does not call the chat model; when
\* the query is not empty it calls the model, and if the model's output holds
\* a placeholder marker of the prompt it returns the "not enough content"
\* text with the day range and the day count, without the model's output.
C17_WeeklyPlaceholders ==
    last.op = "generate_weekly_wrap" =>
        \E u \in UtcDates(today) :
            /\ QueriedAt(u)
            /\ SinceWeekBefore(u) = {} =>
                  /\ last.returned[1].panel = "No entries found for the past 7 days"
                  /\ last.chat_calls = 0
            /\ SinceWeekBefore(u) # {} => last.chat_calls = 1
            /\ (/\ SinceWeekBefore(u) # {}
                /\ ~last.chat_failed
                /\ \E k \in DOMAIN last.ai_response : last.ai_response[k] \in PromptMarkers)
               => /\ last.returned[1].panel = "Not enough content"
                  /\ last.returned[1].range = RangeOf(SinceWeekBefore(u))
                  /\ "wrap_content" \notin DOMAIN last.returned[1]

\* the model echoed a placeholder for a week of two days with messages
C17_Witness ==
    /\ last.op = "generate_weekly_wrap"
    /\ last.chat_calls = 1
    /\ \E k \in DOMAIN last.ai_response : last.ai_response[k] \in PromptMarkers
    /\ last.returned[1].panel = "Not enough content"
    /\ last.returned[1].range.days = 2
    /\ last.returned[1].range.from # last.returned[1].range.to

\* C18: when the chat-model call of the weekly summarizer fails,
\* generate_weekly_wrap raises nothing: it returns the error text with the
\* number of days with content that the query found and the error's text, and
\* the store and the remote copy stay as they were.
C18_WeeklyFailureIsAPanel ==
    [][ (last'.op = "generate_weekly_wrap" /\ last'.chat_failed) =>
          /\ last'.raised = NULL
          /\ last'.returned[1].panel = "Unable to generate"
          /\ last'.returned[1].found = Len(last'.returned[1].prompt)
          /\ \E u \in UtcDates(today) :
                 last'.returned[1].found = Cardinality(SinceWeekBefore(u))
          /\ last'.returned[1].found >= 1
          /\ last'.returned[1].error_details = last'.error_text
          /\ file' = file
          /\ drive' = drive ]_vars

\* the model call failed for a week with a day of messages beside a day with
\* a mood color only
C18_Witness ==
    /\ last.op = "generate_weekly_wrap"
    /\ last.chat_failed
    /\ last.returned[1].panel = "Unable to generate"
    /\ last.returned[1].found = 1
    /\ last.returned[1].error_details = <<"rate", "limit">>
    /\ Cardinality(file.entries) = 2

\* the dates whose entry, as getEntry returns it, has a conversation element
DatesWithContent == {d \in Days : ConversationOf(file, d) # <<>>}

\* C19: in every reachable store state stats().total_entries is the number of
\* rows with a non-empty conversation and stats().last_entry the greatest
\* date among them, absent when there is none; a deleted row and a row with a
\* mood color only count for neither.
C19_StatsCountDaysWithContent ==
    /\ DatesWithContent = {d \in Days : submitted[d] # <<>>}
    /\ get_stats(file).total_entries = Cardinality(DatesWithContent)
    /\ DatesWithContent = {} => get_stats(file).last_entry = NULL
    /\ DatesWithContent # {} =>
          /\ get_stats(file).last_entry # NULL
          /\ get_stats(file).last_entry[1] \in DatesWithContent
          /\ \A d \in DatesWithContent : d <= get_stats(file).last_entry[1]

\* a day with messages, then a later day with a mood color only
C19_Witness ==
    /\ Cardinality(file.entries) = 2
    /\ get_stats(file).total_entries = 1
    /\ \E d \in Days :
           /\ SelectByDate(file, d) # {}
           /\ submitted[d] = <<>>
           /\ get_stats(file).last_entry # NULL
           /\ get_stats(file).last_entry[1] < d

\* the sentiment labels the sentiment model gives
SentimentLabels == {"positive", "neutral", "negative"}

\* the sum of the sentiment counts of the statistics
SumOfSentimentCounts ==
    DictGet(get_stats(file).sentiment_counts, "POSITIVE", 0)
    + DictGet(get_stats(file).sentiment_counts, "NEUTRAL", 0)
    + DictGet(get_stats(file).sentiment_counts, "NEGATIVE", 0)

ShownMessage(message, reply) == [you |-> message, luna |-> reply]

\* text lists date d with the exchange (message, reply) as its last one and
\* n messages in all
ListsExchange(text, d, n, message, reply) ==
    \E k \in DOMAIN HistoryEntries(text) :
        /\ HistoryEntries(text)[k].entry_date = isoformat(d)
        /\ HistoryEntries(text)[k].message_count = n
        /\ Len(HistoryEntries(text)[k].messages) = n
        /\ HistoryEntries(text)[k].messages[n] = ShownMessage(message, reply)

\* C21: after a successful turn the texts emitted are computed from the
\* store that already holds the turn's write: the history text lists today
\* with the message just submitted and its reply as the last exchange, the
\* statistics count today as a day with content and give it as the last
\* journal date, the analysis text is the turn's analysis, and the chat log
\* is the log before the turn followed by the user message and the reply.
C21_ViewsFollowTheWrite ==
    [][ (last'.op = "chat_interface" /\ last'.store_calls = 1 /\ last'.raised = NULL) =>
          /\ history' = history \o
                 << [role |-> "user", content |-> last'.message],
                    [role |-> "assistant", content |-> last'.ai_response] >>
          /\ ListsExchange(shown'.history_display, today,
                 Len(ConversationOf(file, today)) + 1, last'.message, last'.ai_response)
          /\ shown'.stats_bar_display.days_journaled =
                 Cardinality({d \in Days \ {today} : ConversationOf(file, d) # <<>>}) + 1
          /\ shown'.stats_bar_display.last_journal_date = isoformat(today)
          /\ shown'.stats_sidebar_display.total = shown'.stats_bar_display.days_journaled
          /\ Some(shown'.analysis_display.sentiment) = last'.sentiment
          /\ Some(ThemesList(shown'.analysis_display.themes)) = last'.themes ]_vars

\* the second message of a day was saved, the day before has messages too
C21_Witness ==
    /\ last.op = "chat_interface"
    /\ last.store_calls = 1
    /\ last.existed
    /\ Len(ConversationOf(file, last.date)) = 2
    /\ shown.stats_bar_display.days_journaled = 2
    /\ Len(history) = 6

\* C26 as claimed: every stored row with a non-empty conversation has a
\* sentiment label, a sentiment score and themes, a row that setMoodColor
\* created and that received its messages afterwards included.
C26_ContentRowsHaveAnalysis ==
    \A r \in file.entries :
        r.conversation # JsonEmptyList =>
            /\ r.overall_sentiment # NULL
            /\ r.sentiment_score # NULL
            /\ r.themes # NULL

\* the operations that only read the store
ReadOps ==
    {"get_all_entries", "get_entry_by_date", "get_stats",
     "get_mood_color_for_today", "search_entries", "get_weekly_entries"}

C24_ListIsNewestWithinLimit ==
    last.op = "get_all_entries" =>
        /\ Len(last.returned[1]) = Min(last.limit, Cardinality(file.entries))
        /\ \A k \in DOMAIN last.returned[1] :
               \E r \in file.entries : last.returned[1][k] = LoadRow(r)
        /\ \A j, k \in DOMAIN last.returned[1] :
               j < k => last.returned[1][j].entry_date > last.returned[1][k].entry_date
        /\ \A r \in file.entries :
               (\A k \in DOMAIN last.returned[1] : last.returned[1][k].id # r.id)
                   => \A k \in DOMAIN last.returned[1] :
                          r.entry_date < last.returned[1][k].entry_date

\* the limit cut a journal of three days down to its two latest days
C24_Witness ==
    /\ last.op = "get_all_entries"
    /\ last.limit = 2
    /\ Cardinality(file.entries) = 3
    /\ Len(last.returned[1]) = 2
    /\ last.returned[1][1].entry_date = 3
    /\ last.returned[1][2].entry_date = 2

\* the user texts of today's stored conversation
StoredTexts == {ConversationAt(file, today)[k].user : k \in DOMAIN ConversationAt(file, today)}

\* C22: when appendMessage fails during a turn (here: the INSERT of a day's
\* first message is rejected because a concurrent call inserted the day's row
\* first), the failure reaches the caller of the turn, no text and no updated
\* chat log is emitted, and the write that failed left nothing in the store;
\* a turn that emitted a reply committed its write before.
C22_FailedSaveShowsNoReply ==
    \A t \in Threads :
        /\ race.th[t].raised # NULL =>
              /\ race.th[t].out # NULL
              /\ race.th[t].out[1].raised = race.th[t].raised
              /\ race.th[t].out[1].views = NULL
              /\ race.th[t].out[1].history = <<>>
              /\ \A k \in DOMAIN race.commits : race.commits[k] # t
              /\ \E u \in Threads \ {t} :
                     ConversationAt(file, today) = <<MessageOf(u)>>
        /\ (race.th[t].out # NULL /\ race.th[t].out[1].views # NULL) =>
              /\ race.th[t].raised = NULL
              /\ \E k \in DOMAIN race.commits : race.commits[k] = t
              /\ race.th[t].out[1].history =
                     << [role |-> "user", content |-> race.th[t].message],
                        [role |-> "assistant", content |-> race.th[t].ai_response] >>

\* one turn's INSERT was rejected and the other turn showed its reply
C22_Witness ==
    \E t, u \in Threads :
        /\ race.th[t].pc = "raised"
        /\ race.th[t].raised = Some("IntegrityError")
        /\ race.th[t].out[1].views = NULL
        /\ race.th[u].pc = "done"
        /\ race.th[u].out[1].views # NULL
        /\ race.th[t].message # race.th[u].message
        /\ StoredTexts = {race.th[u].message}

\* C30 as claimed: when two first writes of a date run concurrently (both
\* looked for the date's row before either had written), then once both are
\* over the store has exactly one row for the date, neither call raised, and
\* the row holds the messages of both.
C30_ConcurrentFirstWritesBothLand ==
    (/\ \A t \in Threads : race.th[t].pc \in {"done", "raised"}
     /\ \A t \in Threads : race.th[t].existing = NULL)
    => /\ Cardinality(SelectByDate(file, today)) = 1
       /\ \A t \in Threads : race.th[t].raised = NULL
       /\ \A t \in Threads :
              \E k \in DOMAIN ConversationAt(file, today) :
                  ConversationAt(file, today)[k] = MessageOf(t)

\* the closure of the sync hook that the last write called
HookCalled == last.returned[1].hook[1]

\* the files of the user's Drive in folder g
FilesIn(remote, g) == {f \in remote.files : f.parent = g}

\* C25: after beginSession and any number of sync-hook calls made one after
\* another, the user's Drive holds exactly one application folder and at most
\* one database file, which is in that folder; after each hook call that
\* returned, the folder has one database file and its content is the whole
\* local file of the session at the time of the call.
C25_OneFolderOneFileFullReplacement ==
    [][ /\ Cardinality(DOMAIN session'.disk) > 1 =>
              Cardinality(session'.remote.folders) = 1
        /\ Cardinality(session'.remote.files) <= 1
        /\ \A f \in session'.remote.files : f.parent \in session'.remote.folders
        /\ (last'.hook_calls = 1 /\ ~last'.hook_raised) =>
              /\ HookCalled'.local_path = session.db_path
              /\ Cardinality(FilesIn(session'.remote, HookCalled'.folder_id)) = 1
              /\ \A f \in FilesIn(session'.remote, HookCalled'.folder_id) :
                     f.content = WrittenBy(last'.op, session.disk[session.db_path], today)
      ]_vars

\* the hook of a second session replaced the file that the first session
\* had uploaded and the second had downloaded
C25_Witness ==
    /\ last.hook_calls = 1
    /\ ~last.hook_raised
    /\ Cardinality(DOMAIN session.disk) = 3
    /\ Cardinality(session.remote.files) = 1
    /\ HookCalled.local_path = 2
    /\ session.disk[1] # EmptyFile
    /\ session.disk[2] # session.disk[1]
    /\ \A f \in session.remote.files : f.content = session.disk[2]

\* C27 as claimed: login is all-or-nothing: after login_callback returned,
\* either the active path, the active sync hook and the current user's email
\* are all those of the new session, or all three are as before the call.
C27_LoginIsAllOrNothing ==
    [][ last'.op = "login_callback" =>
          \/ /\ session'.db_path = session.db_path
             /\ after_commit' = after_commit
             /\ session'.current_user = session.current_user
          \/ /\ session'.db_path = Cardinality(DOMAIN session.disk)
             /\ after_commit' # NULL
             /\ after_commit'[1].local_path = session'.db_path
             /\ session'.current_user.email = Some(UserEmail)
             /\ session'.current_user.upload_cb = after_commit' ]_vars

\* C28: after logout_user the active path is the default local path, no sync
\* hook is registered and no user is logged in; every write made from then on
\* (until a login) changes the default local file only, calls no hook and
\* leaves the Drive and the temp file of the ended session as they were.
C28_LogoutEndsTheSession ==
    [][ /\ last'.op = "logout_user" =>
              /\ session'.db_path = DefaultDbPath
              /\ after_commit' = NULL
              /\ session'.current_user = [email |-> NULL, upload_cb |-> NULL]
        /\ (session.logged_out /\ last'.store_calls = 1) =>
              /\ last'.returned[1].path = DefaultDbPath
              /\ last'.hook_calls = 0
              /\ session'.remote = session.remote
              /\ \A p \in DOMAIN session.disk \ {DefaultDbPath} :
                     session'.disk[p] = session.disk[p]
              /\ session'.disk[DefaultDbPath] =
                     WrittenBy(last'.op, session.disk[DefaultDbPath], today) ]_vars

\* a write after the logout of a session that had uploaded its file
C28_Witness ==
    /\ last.store_calls = 1
    /\ session.logged_out
    /\ session.remote.files # {}
    /\ session.disk[DefaultDbPath] # EmptyFile
    /\ \A f \in session.remote.files : f.content # session.disk[DefaultDbPath]

\* C29 as claimed: a turn that runs while a login or a logout is under way
\* writes its message to the store that was active when the turn started and
\* calls that store's sync hook: the file written and the hook called belong
\* to one session (the default local file goes with no hook).
C29_TurnStaysInItsSession ==
    race.writer.pc = "done" =>
        /\ race.writer.conn_path = race.writer.path_at_start
        /\ race.writer.hook_called = race.writer.hook_at_start
        /\ IF race.writer.hook_called = NULL
           THEN race.writer.conn_path = DefaultDbPath
           ELSE race.writer.hook_called[1].local_path = race.writer.conn_path

====
